---- MODULE Spec2Model ----
(***************************************************************************)
(* The Tmbdl bytecode pipeline: the code generator (CodeGenerator), the    *)
(* stack VM (VM), the bytecode container (BytecodeSerializer /             *)
(* BytecodeDeserializer) and the CLI paths that connect them.              *)
(*                                                                         *)
(* Offsets, slots and indices are 0-based as in the source; a TLA+         *)
(* sequence s holds the source's element i at s[i + 1].                    *)
(***************************************************************************)
EXTENDS Integers, Sequences, FiniteSets, TLC

(***************************************************************************)
(* OpCode table (bytecode.js)                                              *)
(***************************************************************************)
PUSH_CONST == 1
POP == 2
DUP == 3
ADD == 16
SUB == 17
MUL == 18
DIV == 19
MOD == 20
NEG == 21
EQ == 32
NEQ == 33
LT == 34
LTE == 35
GT == 36
GTE == 37
NOT == 48
LOAD == 64
STORE == 65
LOAD_GLOBAL == 66
STORE_GLOBAL == 67
JUMP == 80
JUMP_IF_FALSE == 81
JUMP_IF_TRUE == 82
LOOP == 83
CALL == 96
RETURN == 97
MAKE_CLOSURE == 98
GET_UPVALUE == 99
SET_UPVALUE == 100
CLOSE_UPVALUE == 101
PRINT == 112
EYEOF == 113
MAKE_ARRAY == 128
INDEX_GET == 129
INDEX_SET == 130
MAKE_OBJECT == 131
GET_PROP == 132
SET_PROP == 133
LENGTH == 134
GET_THIS == 145
IMPORT == 160
EXPORT == 161
HALT == 255

(***************************************************************************)
(* Bounds of the model                                                     *)
(***************************************************************************)
\* Most instructions one run of the VM executes before the model stops it.
MaxSteps == 300
\* Stack slots of the free-standing upvalue list (SpecUpvalues).
UpSlots == 4
\* Most Upvalue objects SpecUpvalues creates.
MaxUpvalues == 4
\* Largest magnitude of a decimal string Number() is asked to parse.
ParseRange == 100
\* Statements in the long conditional body of program 16.
BigBody == 14

\* The elements of each array literal of the program that fills a constant pool
\* past 256 entries.
ManyElements == 19
\* The longest .tmbdlc container, in bytes, of which the cut prefixes are tried.
MaxFile == 1000

(***************************************************************************)
(* Values.  A JavaScript value is a record [t, n, s]: t the variant, n the *)
(* number (or the heap index of an array, closure or function), s the      *)
(* string (or a native's name).                                            *)
(***************************************************************************)
Val(t, n, s) == [t |-> t, n |-> n, s |-> s]
Null == Val("null", 0, "")
Undefined == Val("undefined", 0, "")
NaN == Val("NaN", 0, "")
Bool(b) == Val("boolean", IF b THEN 1 ELSE 0, "")
Num(n) == Val("number", n, "")
Str(s) == Val("string", 0, s)

Max(S) == CHOOSE x \in S : \A y \in S : y <= x
Min(S) == CHOOSE x \in S : \A y \in S : x <= y

\* JavaScript's a[i]: undefined outside the array.
At(seq, i) == IF i \in 0..(Len(seq) - 1) THEN seq[i + 1] ELSE Undefined

\* What reading code[i] gives where the array holds nothing (undefined).
NoByte == 0 - 1048576

(***************************************************************************)
(* Chunk (bytecode.js).  marks and logical are ghost fields: the statement *)
(* boundaries the generator passed, each with the number of locals         *)
(* declared there, and the with / either expressions it lowered.           *)
(***************************************************************************)
NewChunk(name) ==
  [name |-> name, code |-> <<>>, constants |-> <<>>, lines |-> <<>>, marks |-> {},
   logical |-> {}]

ChunkWrite(chunk, byte, line) ==
  [chunk EXCEPT !.code = Append(@, byte), !.lines = Append(@, line)]

\* addConstant's result: the first index holding a === value, else the new one.
ConstantIndex(chunk, value) ==
  LET hits == {i \in 1..Len(chunk.constants) : chunk.constants[i] = value}
  IN IF hits # {} THEN Min(hits) - 1 ELSE Len(chunk.constants)

\* addConstant's effect on the pool.
AddConstant(chunk, value) ==
  IF \E i \in 1..Len(chunk.constants) : chunk.constants[i] = value
  THEN chunk
  ELSE [chunk EXCEPT !.constants = Append(@, value)]

(***************************************************************************)
(* CodeGenerator (codegen.js).  g is the generator: ctx the stack of       *)
(* CompilerContexts (the last is this.current, the one below it its        *)
(* enclosing), loopStack, funcs the TmbdlBytecodeFunction objects created  *)
(* so far (a function value holds its index), err the thrown error.        *)
(***************************************************************************)
CompilerContext(name) ==
  [chunk |-> NewChunk(name), locals |-> <<>>, upvalues |-> <<>>, scopeDepth |-> 0]

NewGenerator ==
  [ctx |-> <<CompilerContext("main")>>, loopStack |-> <<>>, funcs |-> <<>>, err |-> ""]

Cur(g) == g.ctx[Len(g.ctx)]

CurrentOffset(g) == Len(Cur(g).chunk.code)

Throw(g, msg) == [g EXCEPT !.err = msg]

Emit(g, byte, line) ==
  [g EXCEPT !.ctx[Len(g.ctx)].chunk = ChunkWrite(@, byte, line)]

EmitWithOperand(g, opcode, operand, line) ==
  Emit(Emit(g, opcode, line), operand, line)

\* const k = this.chunk.addConstant(value); this.emitWithOperand(opcode, k, line)
EmitWithConstant(g, opcode, value, line) ==
  LET k == ConstantIndex(Cur(g).chunk, value)
      g1 == [g EXCEPT !.ctx[Len(g.ctx)].chunk = AddConstant(@, value)]
  IN EmitWithOperand(g1, opcode, k, line)

EmitConstant(g, value, line) == EmitWithConstant(g, PUSH_CONST, value, line)

\* Returns the generator; the offset to patch is CurrentOffset - 2 afterwards.
EmitJump(g, opcode, line) == Emit(Emit(g, opcode, line), 255, line)

PatchJump(g, offset) ==
  LET jump == CurrentOffset(g) - offset - 2
  IN \* code[offset + 1] = jump; an index past the end extends the array with holes
     IF offset + 1 < CurrentOffset(g)
     THEN [g EXCEPT !.ctx[Len(g.ctx)].chunk.code[offset + 2] = jump]
     ELSE [g EXCEPT !.ctx[Len(g.ctx)].chunk.code =
             @ \o [i \in 1..(offset + 1 - Len(@)) |-> NoByte] \o <<jump>>]

EmitLoop(g, loopStart, line) ==
  LET g1 == Emit(g, LOOP, line)
  IN Emit(g1, CurrentOffset(g1) - loopStart + 1, line)

AddLocal(g, name) ==
  [g EXCEPT !.ctx[Len(g.ctx)].locals =
     Append(@, [name |-> name, depth |-> Cur(g).scopeDepth, isCaptured |-> FALSE])]

\* The slot of the last local of that name in context lvl, or -1.
LocalIn(g, lvl, name) ==
  LET hits == {i \in 1..Len(g.ctx[lvl].locals) : g.ctx[lvl].locals[i].name = name}
  IN IF hits # {} THEN Max(hits) - 1 ELSE -1

ResolveLocal(g, name) == LocalIn(g, Len(g.ctx), name)

\* addUpvalue without the search for an entry it already has.
UpvalueIndexFresh(g, lvl, index, isLocal) == Len(g.ctx[lvl].upvalues)

\* addUpvalue's result in context lvl.
UpvalueIndex(g, lvl, index, isLocal) ==
  LET ups == g.ctx[lvl].upvalues
      hits == {i \in 1..Len(ups) : ups[i].index = index /\ ups[i].isLocal = isLocal}
  IN IF hits # {} THEN Min(hits) - 1 ELSE Len(ups)

\* addUpvalue's effect on context lvl.
AddUpvalue(g, lvl, index, isLocal) ==
  IF UpvalueIndex(g, lvl, index, isLocal) < Len(g.ctx[lvl].upvalues)
  THEN g
  ELSE [g EXCEPT !.ctx[lvl].upvalues = Append(@, [index |-> index, isLocal |-> isLocal])]

\* resolveUpvalue with this.current = ctx[lvl]: [g, slot].
RECURSIVE ResolveUpvalueAt(_, _, _)
ResolveUpvalueAt(g, lvl, name) ==
  IF lvl = 1 THEN [g |-> g, slot |-> -1]
  ELSE LET i == LocalIn(g, lvl - 1, name)
       IN IF i # -1
          THEN LET g1 == [g EXCEPT !.ctx[lvl - 1].locals[i + 1].isCaptured = TRUE]
               IN [g |-> AddUpvalue(g1, lvl, i, TRUE),
                   slot |-> UpvalueIndex(g1, lvl, i, TRUE)]
          ELSE LET r == ResolveUpvalueAt(g, lvl - 1, name)
               IN IF r.slot # -1
                  THEN [g |-> AddUpvalue(r.g, lvl, r.slot, FALSE),
                        slot |-> UpvalueIndex(r.g, lvl, r.slot, FALSE)]
                  ELSE [g |-> r.g, slot |-> -1]

ResolveUpvalue(g, name) == ResolveUpvalueAt(g, Len(g.ctx), name)

BeginScope(g) == [g EXCEPT !.ctx[Len(g.ctx)].scopeDepth = @ + 1]

\* endScope's loop, after scopeDepth has been decremented.
RECURSIVE PopLocals(_)
PopLocals(g) ==
  LET c == Cur(g)
  IN IF Len(c.locals) > 0 /\ c.locals[Len(c.locals)].depth > c.scopeDepth
     THEN LET local == c.locals[Len(c.locals)]
              g1 == [g EXCEPT !.ctx[Len(g.ctx)].locals = SubSeq(@, 1, Len(@) - 1)]
          IN PopLocals(Emit(g1, IF local.isCaptured THEN CLOSE_UPVALUE ELSE POP, 0))
     ELSE g

EndScope(g) == PopLocals([g EXCEPT !.ctx[Len(g.ctx)].scopeDepth = @ - 1])

\* Ghost: note a statement boundary at the current offset.
Mark(g) ==
  [g EXCEPT !.ctx[Len(g.ctx)].chunk.marks =
     @ \cup {[offset |-> CurrentOffset(g), locals |-> Len(Cur(g).locals)]}]

(***************************************************************************)
(* The visitors.  A node is a record with the fields of its AST class; an  *)
(* absent child (null) is [type |-> "None"].                               *)
(***************************************************************************)
RECURSIVE Visit(_, _)

\* for (const n of nodes) this.visit(n)
RECURSIVE VisitEach(_, _)
VisitEach(g, nodes) ==
  IF g.err # "" \/ Len(nodes) = 0 THEN g
  ELSE IF Len(nodes) = 1 THEN Visit(g, Head(nodes))
  ELSE \* the loop over the first half of the nodes, then over the rest
       LET half == Len(nodes) \div 2
       IN VisitEach(VisitEach(g, SubSeq(nodes, 1, half)), SubSeq(nodes, half + 1, Len(nodes)))

\* for (const stmt of statements) this.visit(stmt), with the ghost mark before
\* each statement
RECURSIVE VisitMarked(_, _)
VisitMarked(g, statements) ==
  IF g.err # "" \/ Len(statements) = 0 THEN g
  ELSE IF Len(statements) = 1 THEN Visit(Mark(g), Head(statements))
  ELSE LET half == Len(statements) \div 2
       IN VisitMarked(VisitMarked(g, SubSeq(statements, 1, half)),
                      SubSeq(statements, half + 1, Len(statements)))

\* The statement loop, with the ghost mark at the end of the list too
VisitStatements(g, statements) ==
  LET g1 == VisitMarked(g, statements)
  IN IF g1.err # "" THEN g1 ELSE Mark(g1)

VisitArrayLiteral(g, node) ==
  LET g1 == VisitEach(g, node.elements)
  IN Emit(Emit(g1, MAKE_ARRAY, node.line), Len(node.elements), node.line)

RECURSIVE VisitProperties(_, _, _)
VisitProperties(g, props, line) ==
  IF Len(props) = 0 THEN g
  ELSE VisitProperties(Visit(EmitConstant(g, Str(Head(props).key), line), Head(props).value),
                       Tail(props), line)

VisitObjectLiteral(g, node) ==
  LET g1 == VisitProperties(g, node.properties, node.line)
  IN Emit(Emit(g1, MAKE_OBJECT, node.line), Len(node.properties), node.line)

RECURSIVE VisitParts(_, _, _, _)
VisitParts(g, parts, first, line) ==
  IF Len(parts) = 0 THEN g
  ELSE LET part == Head(parts)
           g1 == IF part.type = "text" THEN EmitConstant(g, Str(part.value), line)
                 ELSE Visit(g, part.value)
           g2 == IF ~first THEN Emit(g1, ADD, line) ELSE g1
       IN VisitParts(g2, Tail(parts), FALSE, line)

VisitTemplateLiteral(g, node) ==
  LET g1 == VisitParts(g, node.parts, TRUE, node.line)
  IN IF Len(node.parts) = 0 THEN EmitConstant(g1, Str(""), node.line) ELSE g1

VisitIdentifier(g, node) ==
  LET local == ResolveLocal(g, node.name)
      r == ResolveUpvalue(g, node.name)
  IN IF local # -1 THEN EmitWithOperand(g, LOAD, local, node.line)
     ELSE IF r.slot # -1 THEN EmitWithOperand(r.g, GET_UPVALUE, r.slot, node.line)
     ELSE EmitWithConstant(r.g, LOAD_GLOBAL, Str(node.name), node.line)

BinaryOpcode(operator) ==
  CASE operator = "+" -> ADD
    [] operator = "-" -> SUB
    [] operator = "*" -> MUL
    [] operator = "/" -> DIV
    [] operator = "%" -> MOD
    [] operator = "==" -> EQ
    [] operator = "!=" -> NEQ
    [] operator = "<" -> LT
    [] operator = "<=" -> LTE
    [] operator = ">" -> GT
    [] operator = ">=" -> GTE
    [] OTHER -> -1

VisitBinaryExpression(g, node) ==
  LET g1 == Visit(Visit(g, node.left), node.right)
  IN IF BinaryOpcode(node.operator) # -1
     THEN Emit(g1, BinaryOpcode(node.operator), node.line)
     ELSE Throw(g1, "Unknown binary operator")

VisitUnaryExpression(g, node) ==
  LET g1 == Visit(g, node.operand)
  IN CASE node.operator = "-" -> Emit(g1, NEG, node.line)
       [] node.operator = "none" -> Emit(g1, NOT, node.line)
       [] OTHER -> Throw(g1, "Unknown unary operator")

\* Ghost: note a lowered logical expression: its operator, the offset of its
\* JUMP_IF_FALSE and the offset just past the code of its right operand.
MarkLogical(g, operator, jump) ==
  [g EXCEPT !.ctx[Len(g.ctx)].chunk.logical =
     @ \cup {[operator |-> operator, jump |-> jump, end |-> CurrentOffset(g)]}]

VisitLogicalExpression(g, node) ==
  LET g1 == Visit(g, node.left)
  IN IF node.operator = "with"
     THEN LET g2 == EmitJump(g1, JUMP_IF_FALSE, node.line)
              endJump == CurrentOffset(g2) - 2
              g3 == Visit(Emit(g2, POP, node.line), node.right)
          IN MarkLogical(PatchJump(g3, endJump), "with", endJump)
     ELSE LET g2 == EmitJump(g1, JUMP_IF_FALSE, node.line)
              elseJump == CurrentOffset(g2) - 2
              g3 == EmitJump(g2, JUMP, node.line)
              endJump == CurrentOffset(g3) - 2
              g4 == Emit(PatchJump(g3, elseJump), POP, node.line)
          IN MarkLogical(PatchJump(Visit(g4, node.right), endJump), "either", elseJump)

VisitCallExpression(g, node) ==
  LET g1 == VisitEach(Visit(g, node.callee), node.arguments)
  IN Emit(Emit(g1, CALL, node.line), Len(node.arguments), node.line)

VisitIndexExpression(g, node) ==
  Emit(Visit(Visit(g, node.object), node.index), INDEX_GET, node.line)

\* The load / store of a name resolved to (local, upvalue): the three-way
\* branch the update, assignment and compound-assignment visitors repeat.
EmitAccess(g, local, upvalue, localOp, upvalueOp, globalOp, name, line) ==
  IF local # -1 THEN EmitWithOperand(g, localOp, local, line)
  ELSE IF upvalue # -1 THEN EmitWithOperand(g, upvalueOp, upvalue, line)
  ELSE EmitWithConstant(g, globalOp, Str(name), line)

VisitUpdateExpression(g, node) ==
  LET local == ResolveLocal(g, node.name)
      r == IF local = -1 THEN ResolveUpvalue(g, node.name) ELSE [g |-> g, slot |-> -1]
      g1 == EmitAccess(r.g, local, r.slot, LOAD, GET_UPVALUE, LOAD_GLOBAL, node.name, node.line)
      g2 == IF ~node.prefix THEN Emit(g1, DUP, node.line) ELSE g1
      g3 == Emit(EmitConstant(g2, Num(1), node.line),
                 IF node.operator = "++" THEN ADD ELSE SUB, node.line)
      g4 == EmitAccess(g3, local, r.slot, STORE, SET_UPVALUE, STORE_GLOBAL, node.name, node.line)
  IN IF node.prefix
     THEN EmitAccess(g4, local, r.slot, LOAD, GET_UPVALUE, LOAD_GLOBAL, node.name, node.line)
     ELSE g4

VisitVariableDeclaration(g, node) ==
  LET g1 == Visit(g, node.value)
  IN IF Cur(g1).scopeDepth > 0 THEN AddLocal(g1, node.name)
     ELSE Emit(EmitWithConstant(g1, STORE_GLOBAL, Str(node.name), node.line), POP, node.line)

VisitAssignment(g, node) ==
  LET g1 == Visit(g, node.value)
      local == ResolveLocal(g1, node.name)
      r == ResolveUpvalue(g1, node.name)
  IN IF local # -1 THEN EmitWithOperand(g1, STORE, local, node.line)
     ELSE IF r.slot # -1 THEN EmitWithOperand(r.g, SET_UPVALUE, r.slot, node.line)
     ELSE EmitWithConstant(r.g, STORE_GLOBAL, Str(node.name), node.line)

VisitIndexAssignment(g, node) ==
  Emit(Visit(Visit(Visit(g, node.object), node.index), node.value), INDEX_SET, node.line)

VisitCompoundAssignment(g, node) ==
  LET local == ResolveLocal(g, node.name)
      r == IF local = -1 THEN ResolveUpvalue(g, node.name) ELSE [g |-> g, slot |-> -1]
      g1 == EmitAccess(r.g, local, r.slot, LOAD, GET_UPVALUE, LOAD_GLOBAL, node.name, node.line)
      g2 == Visit(g1, node.value)
      g3 == IF node.operator \in {"+", "-", "*", "/"}
            THEN Emit(g2, BinaryOpcode(node.operator), node.line) ELSE g2
  IN EmitAccess(g3, local, r.slot, STORE, SET_UPVALUE, STORE_GLOBAL, node.name, node.line)

VisitBlockStatement(g, node) ==
  EndScope(VisitStatements(BeginScope(g), node.statements))

VisitExpressionStatement(g, node) ==
  Emit(Visit(g, node.expression), POP, node.line)

VisitPrintStatement(g, node) == Emit(Visit(g, node.value), PRINT, node.line)

VisitEyeofStatement(g, node) ==
  Emit(Visit(Visit(g, node.label), node.value), EYEOF, node.line)

VisitIfStatement(g, node) ==
  LET g1 == EmitJump(Visit(g, node.condition), JUMP_IF_FALSE, node.line)
      thenJump == CurrentOffset(g1) - 2
      g2 == Visit(Emit(g1, POP, node.line), node.thenBranch)
      g3 == EmitJump(g2, JUMP, node.line)
      elseJump == CurrentOffset(g3) - 2
      g4 == Emit(PatchJump(g3, thenJump), POP, node.line)
      g5 == Visit(g4, node.elseBranch)
  IN PatchJump(g5, elseJump)

RECURSIVE PatchBreaks(_, _)
PatchBreaks(g, breaks) ==
  IF Len(breaks) = 0 THEN g ELSE PatchBreaks(PatchJump(g, Head(breaks)), Tail(breaks))

\* const loop = this.loopStack.pop(); for (const b of loop.breaks) this.patchJump(b)
PopLoop(g) ==
  LET loop == g.loopStack[Len(g.loopStack)]
  IN PatchBreaks([g EXCEPT !.loopStack = SubSeq(@, 1, Len(@) - 1)], loop.breaks)

PushLoop(g, loopStart) ==
  [g EXCEPT !.loopStack = Append(@, [start |-> loopStart, breaks |-> <<>>])]

VisitWhileStatement(g, node) ==
  LET loopStart == CurrentOffset(g)
      g1 == Visit(PushLoop(g, loopStart), node.condition)
      g2 == EmitJump(g1, JUMP_IF_FALSE, node.line)
      exitJump == CurrentOffset(g2) - 2
      g3 == Visit(Emit(g2, POP, node.line), node.body)
      g4 == EmitLoop(g3, loopStart, node.line)
      g5 == Emit(PatchJump(g4, exitJump), POP, node.line)
  IN PopLoop(g5)

VisitForInStatement(g, node) ==
  LET g1 == Visit(BeginScope(g), node.iterable)
      iterLocal == Len(Cur(g1).locals)
      g2 == EmitConstant(AddLocal(g1, "__iter"), Num(0), node.line)
      indexLocal == Len(Cur(g2).locals)
      g3 == EmitConstant(AddLocal(g2, "__i"), Null, node.line)
      varLocal == Len(Cur(g3).locals)
      g4 == AddLocal(g3, node.variable)
      loopStart == CurrentOffset(g4)
      g5 == PushLoop(g4, loopStart)
      g6 == Emit(Emit(EmitWithOperand(EmitWithOperand(g5, LOAD, indexLocal, node.line),
                                      LOAD, iterLocal, node.line),
                      LENGTH, node.line), LT, node.line)
      g7 == EmitJump(g6, JUMP_IF_FALSE, node.line)
      exitJump == CurrentOffset(g7) - 2
      g8 == Emit(g7, POP, node.line)
      g9 == Emit(EmitWithOperand(Emit(EmitWithOperand(EmitWithOperand(g8,
                   LOAD, iterLocal, node.line), LOAD, indexLocal, node.line),
                   INDEX_GET, node.line), STORE, varLocal, node.line), POP, node.line)
      g10 == Visit(g9, node.body)
      g11 == Emit(EmitWithOperand(Emit(EmitConstant(EmitWithOperand(g10,
                   LOAD, indexLocal, node.line), Num(1), node.line),
                   ADD, node.line), STORE, indexLocal, node.line), POP, node.line)
      g12 == EmitLoop(g11, loopStart, node.line)
      g13 == Emit(PatchJump(g12, exitJump), POP, node.line)
  IN EndScope(PopLoop(g13))

VisitBreakStatement(g, node) ==
  IF Len(g.loopStack) = 0 THEN Throw(g, "flee (break) outside of loop")
  ELSE LET g1 == EmitJump(g, JUMP, node.line)
       IN [g1 EXCEPT !.loopStack[Len(g.loopStack)].breaks = Append(@, CurrentOffset(g1) - 2)]

VisitContinueStatement(g, node) ==
  IF Len(g.loopStack) = 0 THEN Throw(g, "onwards (continue) outside of loop")
  ELSE EmitLoop(g, g.loopStack[Len(g.loopStack)].start, node.line)

RECURSIVE AddLocals(_, _)
AddLocals(g, params) ==
  IF Len(params) = 0 THEN g ELSE AddLocals(AddLocal(g, Head(params)), Tail(params))

RECURSIVE EmitUpvalues(_, _, _)
EmitUpvalues(g, upvalues, line) ==
  IF Len(upvalues) = 0 THEN g
  ELSE EmitUpvalues(Emit(Emit(g, IF Head(upvalues).isLocal THEN 1 ELSE 0, line),
                         Head(upvalues).index, line),
                    Tail(upvalues), line)

\* The tail both function visitors share: leave the function's context, create
\* the TmbdlBytecodeFunction, emit MAKE_CLOSURE and the upvalue descriptors.
FinishFunction(g, name, arity, line) ==
  LET funcChunk == Cur(g).chunk
      upvalues == Cur(g).upvalues
      func == [name |-> name, arity |-> arity, chunk |-> funcChunk,
               upvalueCount |-> Len(upvalues)]
      g1 == [g EXCEPT !.ctx = SubSeq(@, 1, Len(@) - 1), !.funcs = Append(@, func)]
      g2 == EmitWithConstant(g1, MAKE_CLOSURE, Val("function", Len(g1.funcs), ""), line)
  IN EmitUpvalues(g2, upvalues, line)

BeginFunction(g, name, params) ==
  AddLocals(BeginScope([g EXCEPT !.ctx = Append(@, CompilerContext(name))]), params)

VisitFunctionDeclaration(g, node) ==
  LET g1 == VisitStatements(BeginFunction(g, node.name, node.params), node.body)
      g2 == Emit(EmitConstant(g1, Null, 0), RETURN, 0)
      g3 == FinishFunction(g2, node.name, Len(node.params), node.line)
  IN Emit(EmitWithConstant(g3, STORE_GLOBAL, Str(node.name), node.line), POP, node.line)

VisitReturnStatement(g, node) ==
  LET g1 == IF node.value.type # "None" THEN Visit(g, node.value)
            ELSE EmitConstant(g, Null, node.line)
  IN Emit(g1, RETURN, node.line)

\* node.block: the body is a statement list ({ ... }), else one expression.
VisitLambdaExpression(g, node) ==
  LET g0 == BeginFunction(g, "<lambda>", node.params)
      g1 == IF node.block THEN EmitConstant(VisitStatements(g0, node.body), Null, 0)
            ELSE Visit(g0, node.body)
  IN FinishFunction(Emit(g1, RETURN, 0), "<lambda>", Len(node.params), node.line)

VisitTryStatement(g, node) == Visit(g, node.tryBlock)

Visit(g, node) ==
  IF g.err # "" \/ node.type = "None" THEN g
  ELSE CASE node.type = "Program" -> VisitStatements(g, node.statements)
         [] node.type = "NumberLiteral" -> EmitConstant(g, Num(node.value), node.line)
         [] node.type = "StringLiteral" -> EmitConstant(g, Str(node.value), node.line)
         [] node.type = "BooleanLiteral" -> EmitConstant(g, Bool(node.value), node.line)
         [] node.type = "NullLiteral" -> EmitConstant(g, Null, node.line)
         [] node.type = "ArrayLiteral" -> VisitArrayLiteral(g, node)
         [] node.type = "ObjectLiteral" -> VisitObjectLiteral(g, node)
         [] node.type = "TemplateLiteral" -> VisitTemplateLiteral(g, node)
         [] node.type = "Identifier" -> VisitIdentifier(g, node)
         [] node.type = "BinaryExpression" -> VisitBinaryExpression(g, node)
         [] node.type = "UnaryExpression" -> VisitUnaryExpression(g, node)
         [] node.type = "LogicalExpression" -> VisitLogicalExpression(g, node)
         [] node.type = "CallExpression" -> VisitCallExpression(g, node)
         [] node.type = "IndexExpression" -> VisitIndexExpression(g, node)
         [] node.type = "UpdateExpression" -> VisitUpdateExpression(g, node)
         [] node.type = "VariableDeclaration" -> VisitVariableDeclaration(g, node)
         [] node.type = "Assignment" -> VisitAssignment(g, node)
         [] node.type = "IndexAssignment" -> VisitIndexAssignment(g, node)
         [] node.type = "CompoundAssignment" -> VisitCompoundAssignment(g, node)
         [] node.type = "BlockStatement" -> VisitBlockStatement(g, node)
         [] node.type = "ExpressionStatement" -> VisitExpressionStatement(g, node)
         [] node.type = "PrintStatement" -> VisitPrintStatement(g, node)
         [] node.type = "EyeofStatement" -> VisitEyeofStatement(g, node)
         [] node.type = "IfStatement" -> VisitIfStatement(g, node)
         [] node.type = "WhileStatement" -> VisitWhileStatement(g, node)
         [] node.type = "ForInStatement" -> VisitForInStatement(g, node)
         [] node.type = "BreakStatement" -> VisitBreakStatement(g, node)
         [] node.type = "ContinueStatement" -> VisitContinueStatement(g, node)
         [] node.type = "FunctionDeclaration" -> VisitFunctionDeclaration(g, node)
         [] node.type = "ReturnStatement" -> VisitReturnStatement(g, node)
         [] node.type = "LambdaExpression" -> VisitLambdaExpression(g, node)
         [] node.type = "TryStatement" -> VisitTryStatement(g, node)
         [] OTHER -> Throw(g, "CodeGenerator: Unknown node type")

\* generate(ast): the compiled program [main, funcs, err].
Generate(ast) ==
  LET g == Emit(Visit(NewGenerator, ast), HALT, 0)
  IN [main |-> Cur(g).chunk, funcs |-> g.funcs, err |-> g.err]

(***************************************************************************)
(* State.  src: the program chosen; phase: where the CLI is ("source",     *)
(* "compiled", "built" after buildBytecode wrote the file, "loaded", "run");*)
(* prog: what generate returned; bytes: the .tmbdlc file; loaded: the      *)
(* program handed to the VM; vm: the machine; prev: the machine before its *)
(* last instruction (ghost).                                               *)
(***************************************************************************)
VARIABLES src, phase, prog, bytes, loaded, vm, prev, host

vars == <<src, phase, prog, bytes, loaded, vm, prev, host>>

\* The TmbdlBytecodeFunction a function value names; 0 is run()'s mainFunc. A
\* negative func stands for a constant that is no function, as a Closure made
\* of one sees it: name and arity are undefined, and new Array(undefined) has
\* one slot.
FuncOf(func) ==
  IF func = 0
  THEN [name |-> "main", arity |-> 0, chunk |-> loaded.main, upvalueCount |-> 0]
  ELSE IF func < 0
  THEN [name |-> "undefined", arity |-> 0 - 1, chunk |-> NewChunk("undefined"),
        upvalueCount |-> 1]
  ELSE loaded.funcs[func]

(***************************************************************************)
(* JavaScript value semantics the VM relies on.  Numbers are integers; a   *)
(* result outside the integers (an inexact quotient, an infinity, a string *)
(* ordering) is the value Unmodelled, which stops the run.                 *)
(***************************************************************************)
Unmodelled == Val("unmodelled", 0, "")

IsObject(v) == v.t \in {"array", "closure", "function", "native", "object"}

\* Number(s) for the decimal integers up to ParseRange; "" is 0.
ParseNumber(s) ==
  IF s = "" THEN Num(0)
  ELSE IF \E k \in (0 - ParseRange)..ParseRange : ToString(k) = s
       THEN Num(CHOOSE k \in (0 - ParseRange)..ParseRange : ToString(k) = s)
       ELSE NaN

\* String(value), m the VM whose heap holds the arrays and closures.
RECURSIVE JSString(_, _)
RECURSIVE JSJoin(_, _, _)
JSJoin(m, elems, sep) ==
  IF Len(elems) = 0 THEN ""
  ELSE LET h == IF Head(elems).t \in {"null", "undefined"} THEN "" ELSE JSString(m, Head(elems))
       IN IF Len(elems) = 1 THEN h ELSE h \o sep \o JSJoin(m, Tail(elems), sep)

JSString(m, v) ==
  CASE v.t = "number" -> ToString(v.n)
    [] v.t = "string" -> v.s
    [] v.t = "boolean" -> IF v.n = 1 THEN "true" ELSE "false"
    [] v.t = "null" -> "null"
    [] v.t = "undefined" -> "undefined"
    [] v.t = "NaN" -> "NaN"
    [] v.t = "array" -> JSJoin(m, m.arrays[v.n], ",")
    [] v.t = "closure" -> "<song " \o FuncOf(m.closures[v.n].func).name \o ">"
    [] v.t = "function" -> "<song " \o FuncOf(v.n).name \o ">"
    [] OTHER -> "[object Object]"

\* Number(value)
ToNumber(m, v) ==
  CASE v.t = "number" -> v
    [] v.t = "boolean" -> Num(v.n)
    [] v.t = "null" -> Num(0)
    [] v.t = "string" -> ParseNumber(v.s)
    [] v.t = "array" -> ParseNumber(JSString(m, v))
    [] OTHER -> NaN

\* a + b
JSAdd(m, a, b) ==
  IF a.t = "string" \/ b.t = "string" \/ IsObject(a) \/ IsObject(b)
  THEN Str(JSString(m, a) \o JSString(m, b))
  ELSE LET x == ToNumber(m, a)
           y == ToNumber(m, b)
       IN IF x.t = "NaN" \/ y.t = "NaN" THEN NaN ELSE Num(x.n + y.n)

Abs(n) == IF n < 0 THEN 0 - n ELSE n

\* a - b, a * b, a / b, a % b
JSArith(m, op, a, b) ==
  LET x == ToNumber(m, a)
      y == ToNumber(m, b)
  IN IF x.t = "NaN" \/ y.t = "NaN" THEN NaN
     ELSE CASE op = SUB -> Num(x.n - y.n)
            [] op = MUL -> Num(x.n * y.n)
            [] op = DIV -> IF y.n = 0 THEN (IF x.n = 0 THEN NaN ELSE Unmodelled)
                           ELSE IF Abs(x.n) % Abs(y.n) # 0 THEN Unmodelled
                           ELSE Num((IF (x.n < 0) # (y.n < 0) THEN -1 ELSE 1)
                                    * (Abs(x.n) \div Abs(y.n)))
            [] op = MOD -> IF y.n = 0 THEN NaN
                           ELSE Num((IF x.n < 0 THEN -1 ELSE 1) * (Abs(x.n) % Abs(y.n)))

\* a === b
StrictEquals(a, b) == a.t # "NaN" /\ a = b

\* a < b, a <= b, a > b, a >= b
JSCompare(m, op, a, b) ==
  IF (a.t = "string" \/ IsObject(a)) /\ (b.t = "string" \/ IsObject(b)) THEN Unmodelled
  ELSE LET x == ToNumber(m, a)
           y == ToNumber(m, b)
       IN IF x.t = "NaN" \/ y.t = "NaN" THEN Bool(FALSE)
          ELSE CASE op = LT -> Bool(x.n < y.n)
                 [] op = LTE -> Bool(x.n <= y.n)
                 [] op = GT -> Bool(x.n > y.n)
                 [] op = GTE -> Bool(x.n >= y.n)

\* VM.isTruthy
IsTruthy(value) ==
  IF value.t = "null" THEN FALSE
  ELSE IF value.t = "boolean" THEN value.n = 1
  ELSE TRUE

\* Interpreter.isTruthy (the tree-walking interpreter)
InterpreterIsTruthy(value) ==
  IF value.t = "null" THEN FALSE
  ELSE IF value.t = "boolean" THEN value.n = 1
  ELSE IF value.t = "number" THEN value.n # 0
  ELSE IF value.t = "string" THEN value.s # ""
  ELSE TRUE

\* JavaScript's own truthiness (what filter, find, some, every test)
JSTruthy(value) ==
  ~(value.t \in {"null", "undefined", "NaN"}
    \/ value = Bool(FALSE) \/ value = Num(0) \/ value = Str(""))

\* VM.formatValue
RECURSIVE FormatValue(_, _)
RECURSIVE FormatElems(_, _)
FormatElems(m, elems) ==
  IF Len(elems) = 0 THEN ""
  ELSE IF Len(elems) = 1 THEN FormatValue(m, Head(elems))
  ELSE FormatValue(m, Head(elems)) \o ", " \o FormatElems(m, Tail(elems))

FormatValue(m, value) ==
  CASE value.t = "null" -> "shadow"
    [] value = Bool(TRUE) -> "goldberry"
    [] value = Bool(FALSE) -> "sauron"
    [] value.t = "array" -> "[" \o FormatElems(m, m.arrays[value.n]) \o "]"
    [] value.t = "native" -> "<native song " \o value.s \o ">"
    [] OTHER -> JSString(m, value)

(***************************************************************************)
(* The VM (vm.js).  m is the machine: stack, frames (the last is           *)
(* this.frame), globals, the heap (upvalues, closures, arrays, each object *)
(* named by its 1-based index; 0 is null), openUpvalues the head of the    *)
(* list, output the lines printed, status/error/result how the run ended.  *)
(* Ghost fields: born[i] numbers the push that created stack slot i, caps  *)
(* records each local captured by MAKE_CLOSURE, calls each closure invoked *)
(* by a native, steps counts instructions.                                 *)
(***************************************************************************)
\* Upvalue.location === null
NullLoc == 0 - 1

Native(name, arity) == Val("native", arity, name)

NativeNames ==
  <<"length", "push", "abs", "range", "map", "filter", "reduce", "find", "some", "every">>

NativeArity(name) ==
  CASE name \in {"length", "abs"} -> 1
    [] name \in {"reduce", "range"} -> 0 - 1
    [] OTHER -> 2

\* new VM(): the state the constructor and initStdlib leave
NewVM ==
  [status |-> "idle", error |-> "", result |-> Undefined,
   stack |-> <<>>, frames |-> <<>>,
   globals |-> [k \in {Str(NativeNames[i]) : i \in 1..Len(NativeNames)} |->
                  Native(k.s, NativeArity(k.s))],
   openUpvalues |-> 0, upvalues |-> <<>>, closures |-> <<>>, arrays |-> <<>>,
   output |-> <<>>,
   born |-> <<>>, births |-> 0, acts |-> 0, caps |-> {}, calls |-> <<>>, steps |-> 0]

Frame(m) == m.frames[Len(m.frames)]

Fail(m, msg) == [m EXCEPT !.status = "error", !.error = msg]

\* The byte readByte() returns next: undefined past the end of the code.
Byte(m) ==
  LET code == FuncOf(m.closures[Frame(m).closure].func).chunk.code
      ip == Frame(m).ip
  IN IF ip \in 0..(Len(code) - 1) THEN code[ip + 1] ELSE NoByte

ReadByte(m) == [m EXCEPT !.frames[Len(m.frames)].ip = @ + 1]

\* this.frame.chunk.constants[index]
Constant(m, index) ==
  At(FuncOf(m.closures[Frame(m).closure].func).chunk.constants, index)

Push(m, value) ==
  [m EXCEPT !.stack = Append(@, value), !.born = Append(@, m.births + 1),
            !.births = @ + 1]

Pop(m) ==
  IF Len(m.stack) = 0 THEN m
  ELSE [m EXCEPT !.stack = SubSeq(@, 1, Len(@) - 1), !.born = SubSeq(@, 1, Len(@) - 1)]

Peek(m, distance) == At(m.stack, Len(m.stack) - 1 - distance)

RECURSIVE PopN(_, _)
PopN(m, n) == IF n <= 0 THEN m ELSE PopN(Pop(m), n - 1)

\* this.stack[index] = value; writing past the end leaves holes (undefined)
StackSet(m, index, value) ==
  IF index < 0 THEN m
  ELSE IF index < Len(m.stack) THEN [m EXCEPT !.stack[index + 1] = value]
  ELSE LET m1 == [m EXCEPT
                    !.stack = @ \o [i \in 1..(index - Len(@)) |-> Undefined],
                    !.born = @ \o [i \in 1..(index - Len(@)) |-> 0]]
       IN Push(m1, value)

\* Upvalue.get / Upvalue.set
UpvalueGet(m, u) ==
  IF m.upvalues[u].location # NullLoc THEN At(m.stack, m.upvalues[u].location)
  ELSE m.upvalues[u].closed

UpvalueSet(m, u, value) ==
  IF m.upvalues[u].location # NullLoc THEN StackSet(m, m.upvalues[u].location, value)
  ELSE [m EXCEPT !.upvalues[u].closed = value]

\* A location in a relational comparison: null compares as 0.
LocNum(location) == IF location = NullLoc THEN 0 ELSE location

\* captureUpvalue's walk: [prevUpvalue, upvalue] where the while loop stops
RECURSIVE WalkUpvalues(_, _, _, _)
WalkUpvalues(m, prevUpvalue, upvalue, stackIndex) ==
  IF upvalue # 0 /\ LocNum(m.upvalues[upvalue].location) > stackIndex
  THEN WalkUpvalues(m, upvalue, m.upvalues[upvalue].next, stackIndex)
  ELSE [prevUpvalue |-> prevUpvalue, upvalue |-> upvalue]

\* captureUpvalue without the reuse of an upvalue already open on the slot: the
\* walk and the sorted insertion are kept, a new Upvalue is made every time.
CaptureFresh(m, stackIndex) ==
  LET w == WalkUpvalues(m, 0, m.openUpvalues, stackIndex)
      created == Len(m.upvalues) + 1
      m1 == [m EXCEPT !.upvalues =
               Append(@, [location |-> stackIndex, closed |-> Null, next |-> w.upvalue])]
  IN IF w.prevUpvalue = 0
     THEN [m |-> [m1 EXCEPT !.openUpvalues = created], upvalue |-> created]
     ELSE [m |-> [m1 EXCEPT !.upvalues[w.prevUpvalue].next = created], upvalue |-> created]

\* captureUpvalue without the sorted insertion: an upvalue already open on the
\* slot is reused, a new one is linked in at the head of the list.
CaptureAtHead(m, stackIndex) ==
  LET w == WalkUpvalues(m, 0, m.openUpvalues, stackIndex)
      created == Len(m.upvalues) + 1
  IN IF w.upvalue # 0 /\ m.upvalues[w.upvalue].location = stackIndex
     THEN [m |-> m, upvalue |-> w.upvalue]
     ELSE [m |-> [m EXCEPT !.upvalues = Append(@, [location |-> stackIndex,
                                                    closed |-> Null,
                                                    next |-> m.openUpvalues]),
                           !.openUpvalues = created],
           upvalue |-> created]

\* captureUpvalue: [m, upvalue]
CaptureUpvalue(m, stackIndex) ==
  LET w == WalkUpvalues(m, 0, m.openUpvalues, stackIndex)
      created == Len(m.upvalues) + 1
      m1 == [m EXCEPT !.upvalues =
               Append(@, [location |-> stackIndex, closed |-> Null, next |-> w.upvalue])]
  IN IF w.upvalue # 0 /\ m.upvalues[w.upvalue].location = stackIndex
     THEN [m |-> m, upvalue |-> w.upvalue]
     ELSE IF w.prevUpvalue = 0
     THEN [m |-> [m1 EXCEPT !.openUpvalues = created], upvalue |-> created]
     ELSE [m |-> [m1 EXCEPT !.upvalues[w.prevUpvalue].next = created], upvalue |-> created]

\* closeUpvalues with an if in place of the while: only the head is closed.
CloseHead(m, lastIndex) ==
  IF m.openUpvalues # 0 /\ LocNum(m.upvalues[m.openUpvalues].location) >= lastIndex
  THEN LET upvalue == m.openUpvalues
       IN [m EXCEPT
            !.upvalues[upvalue].closed = At(m.stack, m.upvalues[upvalue].location),
            !.upvalues[upvalue].location = NullLoc,
            !.openUpvalues = m.upvalues[upvalue].next]
  ELSE m

\* closeUpvalues that closes nothing.
CloseNothing(m, lastIndex) == m

\* closeUpvalues with a close() that forgets to copy the slot into the cell.
RECURSIVE CloseWithoutCopy(_, _)
CloseWithoutCopy(m, lastIndex) ==
  IF m.openUpvalues # 0 /\ LocNum(m.upvalues[m.openUpvalues].location) >= lastIndex
  THEN LET upvalue == m.openUpvalues
       IN CloseWithoutCopy([m EXCEPT
            !.upvalues[upvalue].location = NullLoc,
            !.openUpvalues = m.upvalues[upvalue].next], lastIndex)
  ELSE m

RECURSIVE CloseUpvalues(_, _)
CloseUpvalues(m, lastIndex) ==
  IF m.openUpvalues # 0 /\ LocNum(m.upvalues[m.openUpvalues].location) >= lastIndex
  THEN LET upvalue == m.openUpvalues
       IN CloseUpvalues([m EXCEPT
            !.upvalues[upvalue].closed = At(m.stack, m.upvalues[upvalue].location),
            !.upvalues[upvalue].location = NullLoc,
            !.openUpvalues = m.upvalues[upvalue].next], lastIndex)
  ELSE m

\* callClosure with the frame pushed before the arity is compared.
CallClosureLate(m, closure, argCount, calleeSlot) ==
  LET m1 == [m EXCEPT !.acts = @ + 1,
                      !.frames = Append(@, [closure |-> closure, ip |-> 0,
                                            stackOffset |-> Len(m.stack) - argCount,
                                            returnSlot |-> Len(m.stack) - argCount - 1,
                                            act |-> m.acts + 1,
                                            calleeSlot |-> calleeSlot])]
  IN IF argCount # FuncOf(m.closures[closure].func).arity
     THEN Fail(m1, "Expected arguments mismatch")
     ELSE m1

\* callClosure; calleeSlot is a ghost: the stack index the callee value
\* occupied when the call began, or -1 when it was not on the stack.
CallClosure(m, closure, argCount, calleeSlot) ==
  IF argCount # FuncOf(m.closures[closure].func).arity
  THEN Fail(m, "Expected arguments mismatch")
  ELSE [m EXCEPT !.acts = @ + 1,
                 !.frames = Append(@, [closure |-> closure, ip |-> 0,
                                       stackOffset |-> Len(m.stack) - argCount,
                                       returnSlot |-> Len(m.stack) - argCount - 1,
                                       act |-> m.acts + 1, calleeSlot |-> calleeSlot])]

NewClosure(m, func) ==
  [m EXCEPT !.closures = Append(@, [func |-> func,
              upvalues |-> [i \in 1..FuncOf(func).upvalueCount |-> 0]])]

NewArray(m, elems) == [m EXCEPT !.arrays = Append(@, elems)]

RECURSIVE PushAll(_, _)
PushAll(m, args) == IF Len(args) = 0 THEN m ELSE PushAll(Push(m, Head(args)), Tail(args))

(***************************************************************************)
(* Natives (initStdlib) and the two call paths of callValue.               *)
(***************************************************************************)
RECURSIVE NativeFn(_, _, _)
RECURSIVE CallValueArgs(_, _, _)
RECURSIVE IterCollect(_, _, _, _, _, _)
RECURSIVE IterTest(_, _, _, _, _)
RECURSIVE IterReduce(_, _, _, _, _)

\* callValue(callee, argsArray): the path natives use; [m, value]
CallValueArgs(m, callee, argsArray) ==
  LET m0 == IF callee.t = "function" THEN NewClosure(m, callee.n) ELSE m
      closure == IF callee.t = "function" THEN Len(m0.closures) ELSE callee.n
      m1 == CallClosure(PushAll(m0, argsArray), closure, Len(argsArray), 0 - 1)
      entry == [framesBefore |-> Len(m.frames), stackBefore |-> Len(m.stack),
                framesAfter |-> Len(m1.frames), stackAfter |-> Len(m1.stack),
                value |-> Undefined]
  IN IF callee.t = "native" THEN NativeFn(m, callee.s, argsArray)
     ELSE IF callee.t \in {"closure", "function"}
     THEN [m |-> IF m1.status = "error" THEN m1
                 ELSE [m1 EXCEPT !.calls = Append(@, entry)],
           value |-> Undefined]
     ELSE [m |-> Fail(m, "Cannot call"), value |-> Undefined]

\* arr.map / arr.filter: out collects the new array's elements
IterCollect(m, arr, i, fn, keep, out) ==
  IF m.status # "running" THEN [m |-> m, value |-> Undefined]
  ELSE IF i >= Len(m.arrays[arr])
  THEN [m |-> NewArray(m, out), value |-> Val("array", Len(m.arrays) + 1, "")]
  ELSE LET item == m.arrays[arr][i + 1]
           r == CallValueArgs(m, fn, <<item, Num(i)>>)
       IN IterCollect(r.m, arr, i + 1, fn, keep,
                      IF ~keep THEN Append(out, r.value)
                      ELSE IF JSTruthy(r.value) THEN Append(out, item) ELSE out)

\* arr.find / arr.some / arr.every: stop at the first deciding element
IterTest(m, arr, i, fn, kind) ==
  IF m.status # "running" THEN [m |-> m, value |-> Undefined]
  ELSE IF i >= Len(m.arrays[arr])
  THEN [m |-> m, value |-> CASE kind = "find" -> Null
                             [] kind = "some" -> Bool(FALSE)
                             [] kind = "every" -> Bool(TRUE)]
  ELSE LET item == m.arrays[arr][i + 1]
           r == CallValueArgs(m, fn, <<item, Num(i)>>)
       IN IF r.m.status = "running" /\ JSTruthy(r.value) /\ kind = "find"
          THEN [m |-> r.m, value |-> item]
          ELSE IF r.m.status = "running" /\ JSTruthy(r.value) /\ kind = "some"
          THEN [m |-> r.m, value |-> Bool(TRUE)]
          ELSE IF r.m.status = "running" /\ ~JSTruthy(r.value) /\ kind = "every"
          THEN [m |-> r.m, value |-> Bool(FALSE)]
          ELSE IterTest(r.m, arr, i + 1, fn, kind)

\* arr.reduce
IterReduce(m, arr, i, fn, acc) ==
  IF m.status # "running" THEN [m |-> m, value |-> Undefined]
  ELSE IF i >= Len(m.arrays[arr]) THEN [m |-> m, value |-> acc]
  ELSE LET r == CallValueArgs(m, fn, <<acc, m.arrays[arr][i + 1], Num(i)>>)
       IN IterReduce(r.m, arr, i + 1, fn, r.value)

\* callee.fn(args): [m, value]
NativeFn(m, name, args) ==
  LET a0 == At(args, 0)
      a1 == At(args, 1)
  IN CASE name = "length" ->
            IF a0.t = "string" THEN [m |-> m, value |-> Num(Len(a0.s))]
            ELSE IF a0.t = "array" THEN [m |-> m, value |-> Num(Len(m.arrays[a0.n]))]
            ELSE [m |-> Fail(m, "length() requires a string or array"), value |-> Undefined]
       [] name = "push" ->
            IF a0.t = "array"
            THEN [m |-> [m EXCEPT !.arrays[a0.n] = Append(@, a1)], value |-> a0]
            ELSE [m |-> Fail(m, "TypeError"), value |-> Undefined]
       [] name = "abs" ->
            LET x == ToNumber(m, a0)
            IN [m |-> m, value |-> IF a0.t = "undefined" \/ x.t = "NaN" THEN NaN
                                   ELSE Num(Abs(x.n))]
       [] name = "range" ->
            LET start == IF Len(args) = 1 THEN Num(0) ELSE a0
                end == IF Len(args) = 1 THEN a0 ELSE a1
                step == IF Len(args) >= 3 THEN args[3] ELSE Num(1)
                Count(from, to, by) == IF to <= from THEN 0 ELSE (to - from + by - 1) \div by
                Result(count) ==
                  [m |-> NewArray(m, [k \in 1..count |-> Num(start.n + (k - 1) * step.n)]),
                   value |-> Val("array", Len(m.arrays) + 1, "")]
            IN IF {start.t, end.t, step.t} # {"number"} \/ (step.n = 0 /\ start.n > end.n)
               THEN [m |-> [m EXCEPT !.status = "unmodelled"], value |-> Undefined]
               ELSE IF step.n > 0 THEN Result(Count(start.n, end.n, step.n))
               ELSE IF step.n < 0 THEN Result(Count(end.n, start.n, 0 - step.n))
               ELSE Result(0)
       [] name \in {"map", "filter", "find", "some", "every", "reduce"} /\ a0.t # "array" ->
            [m |-> Fail(m, "TypeError"), value |-> Undefined]
       [] name = "map" -> IterCollect(m, a0.n, 0, a1, FALSE, <<>>)
       [] name = "filter" -> IterCollect(m, a0.n, 0, a1, TRUE, <<>>)
       [] name \in {"find", "some", "every"} -> IterTest(m, a0.n, 0, a1, name)
       [] name = "reduce" ->
            IF Len(args) >= 3 THEN IterReduce(m, a0.n, 0, a1, args[3])
            ELSE IF Len(m.arrays[a0.n]) = 0
            THEN [m |-> Fail(m, "TypeError"), value |-> Undefined]
            ELSE IterReduce(m, a0.n, 1, a1, m.arrays[a0.n][1])
       [] OTHER -> [m |-> [m EXCEPT !.status = "unmodelled"], value |-> Undefined]

\* callValue(callee, null, argCount): the path of the CALL instruction
CallValue(m, callee, argCount) ==
  IF callee.t = "native"
  THEN LET args == [i \in 1..argCount |-> At(m.stack, Len(m.stack) - argCount + i - 1)]
           r == NativeFn(PopN(m, argCount + 1), callee.s, args)
       IN IF r.m.status = "running" THEN Push(r.m, r.value) ELSE r.m
  ELSE IF callee.t = "closure"
  THEN CallClosure(m, callee.n, argCount, Len(m.stack) - 1 - argCount)
  ELSE IF callee.t = "function"
  THEN CallClosure(NewClosure(m, callee.n), Len(m.closures) + 1, argCount,
                   Len(m.stack) - 1 - argCount)
  ELSE Fail(m, "Cannot call")

(***************************************************************************)
(* VM.execute: one instruction.  Each operator takes the machine after the *)
(* opcode byte has been read.                                              *)
(***************************************************************************)
\* this.stack.length = n
SetLength(m, n) ==
  IF n < 0 THEN Fail(m, "RangeError: Invalid array length")
  ELSE IF n <= Len(m.stack)
  THEN [m EXCEPT !.stack = SubSeq(@, 1, n), !.born = SubSeq(@, 1, n)]
  ELSE [m EXCEPT !.stack = @ \o [i \in 1..(n - Len(@)) |-> Undefined],
                 !.born = @ \o [i \in 1..(n - Len(@)) |-> 0]]

OpPushConst(m) == Push(ReadByte(m), Constant(m, Byte(m)))

OpDup(m) == Push(m, Peek(m, 0))

OpArith(m, op) ==
  LET b == Peek(m, 0)
      a == Peek(m, 1)
      m2 == PopN(m, 2)
  IN CASE op = ADD -> Push(m2, JSAdd(m, a, b))
       [] op = DIV /\ b = Num(0) -> Fail(m2, "Division by zero")
       [] op = NEG -> Push(Pop(m), JSArith(m, SUB, Num(0), b))
       [] OTHER -> Push(m2, JSArith(m, op, a, b))

OpCompare(m, op) ==
  LET b == Peek(m, 0)
      a == Peek(m, 1)
      m2 == PopN(m, 2)
  IN CASE op = EQ -> Push(m2, Bool(StrictEquals(a, b)))
       [] op = NEQ -> Push(m2, Bool(~StrictEquals(a, b)))
       [] OTHER -> Push(m2, JSCompare(m, op, a, b))

OpNot(m) == Push(Pop(m), Bool(~IsTruthy(Peek(m, 0))))

OpLoad(m) == Push(ReadByte(m), At(m.stack, Frame(m).stackOffset + Byte(m)))

\* The variant of STORE that pops the value it stored
OpStorePop(m) == Pop(StackSet(ReadByte(m), Frame(m).stackOffset + Byte(m), Peek(m, 0)))

OpStore(m) == StackSet(ReadByte(m), Frame(m).stackOffset + Byte(m), Peek(m, 0))

OpLoadGlobal(m) ==
  LET name == Constant(m, Byte(m))
  IN IF name \notin DOMAIN m.globals THEN Fail(ReadByte(m), "Undefined variable")
     ELSE Push(ReadByte(m), m.globals[name])

OpStoreGlobal(m) ==
  LET name == Constant(m, Byte(m))
  IN [ReadByte(m) EXCEPT !.globals =
        [k \in DOMAIN m.globals \cup {name} |-> IF k = name THEN Peek(m, 0) ELSE m.globals[k]]]

\* JUMP, JUMP_IF_FALSE, JUMP_IF_TRUE, LOOP
OpJump(m, op) ==
  LET offset == Byte(m)
      m1 == ReadByte(m)
      taken == CASE op = JUMP_IF_FALSE -> ~IsTruthy(Peek(m, 0))
                 [] op = JUMP_IF_TRUE -> IsTruthy(Peek(m, 0))
                 [] OTHER -> TRUE
  IN IF ~taken THEN m1
     ELSE [m1 EXCEPT !.frames[Len(m.frames)].ip =
             IF op = LOOP THEN @ - offset ELSE @ + offset]

OpCall(m) ==
  LET argCount == Byte(m)
      m1 == ReadByte(m)
  IN CallValue(m1, At(m1.stack, Len(m1.stack) - 1 - argCount), argCount)

\* closure.upvalues[index]; 0 where it is null or absent
UpvalueAt(m, closure, index) ==
  IF index \in 0..(Len(m.closures[closure].upvalues) - 1)
  THEN m.closures[closure].upvalues[index + 1] ELSE 0

\* Ghost: the push that created stack slot index (0 if there is none)
BornAt(m, index) == IF index \in 0..(Len(m.born) - 1) THEN m.born[index + 1] ELSE 0

\* MAKE_CLOSURE's descriptor loop, from descriptor i on
RECURSIVE ReadUpvalues(_, _, _, _)
ReadUpvalues(m, closure, i, upvalueCount) ==
  IF i >= upvalueCount THEN m
  ELSE LET isLocal == Byte(m)
           index == Byte(ReadByte(m))
           m2 == ReadByte(ReadByte(m))
           c == CaptureUpvalue(m2, Frame(m).stackOffset + index)
           cap == [closure |-> closure, act |-> Frame(m).act, location |-> Frame(m).stackOffset + index,
                   born |-> BornAt(m, Frame(m).stackOffset + index), upvalue |-> c.upvalue]
       IN IF isLocal \notin {0, NoByte}
          THEN ReadUpvalues([c.m EXCEPT !.closures[closure].upvalues[i + 1] = c.upvalue,
                                        !.caps = @ \cup {cap}],
                            closure, i + 1, upvalueCount)
          ELSE ReadUpvalues([m2 EXCEPT !.closures[closure].upvalues[i + 1] =
                               UpvalueAt(m, Frame(m).closure, index)],
                            closure, i + 1, upvalueCount)

OpMakeClosure(m) ==
  LET func == Constant(m, Byte(m))
      m1 == NewClosure(ReadByte(m), func.n)
      closure == Len(m1.closures)
      \* new Closure(func) of a number, a string or a boolean: no descriptor is
      \* read, i < undefined being false
      m2 == NewClosure(ReadByte(m), 0 - 1)
  IN IF func.t \in {"null", "undefined"} THEN Fail(ReadByte(m), "TypeError")
     ELSE IF func.t # "function" THEN Push(m2, Val("closure", Len(m2.closures), ""))
     ELSE Push(ReadUpvalues(m1, closure, 0, FuncOf(func.n).upvalueCount),
               Val("closure", closure, ""))

OpGetUpvalue(m) ==
  LET upvalue == UpvalueAt(m, Frame(m).closure, Byte(m))
  IN IF upvalue = 0 THEN Fail(ReadByte(m), "TypeError")
     ELSE Push(ReadByte(m), UpvalueGet(m, upvalue))

OpSetUpvalue(m) ==
  LET upvalue == UpvalueAt(m, Frame(m).closure, Byte(m))
  IN IF upvalue = 0 THEN Fail(ReadByte(m), "TypeError")
     ELSE UpvalueSet(ReadByte(m), upvalue, Peek(m, 0))

OpCloseUpvalue(m) == Pop(CloseUpvalues(m, Len(m.stack) - 1))

OpReturn(m) ==
  LET result == Peek(m, 0)
      m1 == CloseUpvalues(Pop(m), Frame(m).stackOffset)
      returnSlot == Frame(m).returnSlot
      m2 == [m1 EXCEPT !.frames = SubSeq(@, 1, Len(@) - 1)]
      m3 == SetLength(m2, returnSlot)
  IN IF Len(m2.frames) = 0 THEN [m2 EXCEPT !.status = "returned", !.result = result]
     ELSE IF m3.status = "error" THEN m3
     ELSE Push(m3, result)

OpPrint(m) == [Pop(m) EXCEPT !.output = Append(@, FormatValue(m, Peek(m, 0)))]

OpMakeArray(m) ==
  LET count == Byte(m)
      m1 == ReadByte(m)
      arr == [i \in 1..count |-> At(m.stack, Len(m.stack) - count + i - 1)]
  IN Push(NewArray(PopN(m1, count), arr), Val("array", Len(m.arrays) + 1, ""))

\* obj[index] for the values of the model
JSIndex(m, obj, index) ==
  IF obj.t \in {"null", "undefined"} THEN Unmodelled
  ELSE IF obj.t = "array" /\ index.t = "number" THEN At(m.arrays[obj.n], index.n)
  ELSE IF obj.t = "array" /\ index = Str("length") THEN Num(Len(m.arrays[obj.n]))
  ELSE IF obj.t = "string" /\ index = Str("length") THEN Num(Len(obj.s))
  ELSE IF obj.t \in {"number", "boolean", "NaN"} THEN Undefined
  ELSE Unmodelled

OpIndexGet(m) ==
  LET index == Peek(m, 0)
      obj == Peek(m, 1)
  IN IF obj.t \in {"null", "undefined"} THEN Fail(PopN(m, 2), "TypeError")
     ELSE Push(PopN(m, 2), JSIndex(m, obj, index))

OpIndexSet(m) ==
  LET value == Peek(m, 0)
      index == Peek(m, 1)
      obj == Peek(m, 2)
      m3 == PopN(m, 3)
  IN IF obj.t \in {"null", "undefined"} THEN Fail(m3, "TypeError")
     ELSE IF obj.t = "array" /\ index.t = "number" /\ index.n \in 0..Len(m.arrays[obj.n])
     THEN Push([m3 EXCEPT !.arrays[obj.n] =
                  IF index.n = Len(@) THEN Append(@, value)
                  ELSE [@ EXCEPT ![index.n + 1] = value]], value)
     ELSE IF obj.t \in {"number", "boolean", "string", "NaN"} THEN Push(m3, value)
     ELSE [m3 EXCEPT !.status = "unmodelled"]

OpLength(m) ==
  LET val == Peek(m, 0)
  IN IF val.t \in {"null", "undefined"} THEN Fail(Pop(m), "TypeError")
     ELSE Push(Pop(m), JSIndex(m, val, Str("length")))

OpHalt(m) ==
  [m EXCEPT !.status = "halted",
            !.result = IF Len(m.stack) > 0 THEN Peek(m, 0) ELSE Null]

\* VM.run(chunk)
Run(m) ==
  [m EXCEPT !.status = "running",
            !.closures = Append(@, [func |-> 0, upvalues |-> <<>>]),
            !.frames = <<[closure |-> Len(m.closures) + 1, ip |-> 0, stackOffset |-> 0,
                          returnSlot |-> 0, act |-> m.acts + 1, calleeSlot |-> 0 - 1]>>,
            !.acts = @ + 1,
            !.openUpvalues = 0]

(***************************************************************************)
(* BytecodeSerializer / BytecodeDeserializer.  A program p is [main,       *)
(* funcs, err]; the serializer's functionMap is the sequence of function   *)
(* ids in insertion order (0 is the dummy function wrapping the main       *)
(* chunk), so a function's index is its position - 1.                      *)
(***************************************************************************)
\* The printable ASCII characters; character i has code 31 + i.  The double
\* quote and the backquote cannot be written in a string here: a space
\* stands in their places, and no string of the model contains them.
Chars ==
  " ! #$%&'()*+,-./0123456789:;<=>?@ABCDEFGHIJKLMNOPQRSTUVWXYZ[\\]^_ abcdefghijklmnopqrstuvwxyz{|}~"

\* The UTF-8 byte of a character of Chars ("?" for any other)
CharCode(c) ==
  LET hits == {i \in 1..Len(Chars) : SubSeq(Chars, i, i) = c}
  IN IF hits = {} THEN 63 ELSE 31 + Min(hits)

MAGIC == <<84, 77, 66, 68, 76>>
VERSION == 1
TYPE_NULL == 0
TYPE_BOOL == 1
TYPE_NUMBER == 2
TYPE_STRING == 3
TYPE_FUNCTION == 4

\* byte & 0xFF
WriteByte(byte) == <<IF byte = NoByte THEN 0 ELSE byte % 256>>

WriteUint16(value) == WriteByte(value \div 256) \o WriteByte(value)

WriteUint32(value) ==
  WriteByte(value \div 16777216) \o WriteByte(value \div 65536)
    \o WriteByte(value \div 256) \o WriteByte(value)

\* The width lowest bits of n, most significant first.
RECURSIVE Bits(_, _)
Bits(n, width) ==
  IF width = 0 THEN <<>> ELSE Append(Bits(n \div 2, width - 1), n % 2)

RECURSIVE FromBits(_)
FromBits(bits) ==
  IF Len(bits) = 0 THEN 0
  ELSE 2 * FromBits(SubSeq(bits, 1, Len(bits) - 1)) + bits[Len(bits)]

RECURSIVE Pow2(_)
Pow2(e) == IF e = 0 THEN 1 ELSE 2 * Pow2(e - 1)

\* floor(log2(a)) for a >= 1
RECURSIVE Log2(_)
Log2(a) == IF a < 2 THEN 0 ELSE 1 + Log2(a \div 2)

\* DataView.setFloat64(0, value, false) for an integer value
WriteFloat64(value) ==
  LET a == Abs(value)
      e == Log2(a)
      bits == IF value = 0 THEN [i \in 1..64 |-> 0]
              ELSE <<IF value < 0 THEN 1 ELSE 0>> \o Bits(e + 1023, 11)
                     \o Bits(a - Pow2(e), e) \o [i \in 1..(52 - e) |-> 0]
  IN [i \in 1..8 |-> FromBits(SubSeq(bits, 8 * i - 7, 8 * i))]

RECURSIVE EncodeString(_)
EncodeString(str) ==
  IF Len(str) = 0 THEN <<>>
  ELSE <<CharCode(SubSeq(str, 1, 1))>> \o EncodeString(SubSeq(str, 2, Len(str)))

WriteString(str) == WriteUint32(Len(str)) \o EncodeString(str)

\* addFunction: the functionMap after func and the functions below it are added
RECURSIVE AddFunction(_, _, _)
RECURSIVE AddConstants(_, _, _)
AddConstants(p, map, constants) ==
  \* the loop acts on the constants that are functions only
  LET IsFunction(value) == value.t = "function"
      functions == SelectSeq(constants, IsFunction)
  IN IF Len(functions) = 0 THEN map
     ELSE AddConstants(p, AddFunction(p, map, Head(functions).n), Tail(functions))

\* The variant of addFunction that gives a function its index after the
\* functions among its constants
AddFunctionAfter(p, map, func) ==
  IF \E i \in 1..Len(map) : map[i] = func THEN map
  ELSE Append(AddConstants(p, map, (IF func = 0 THEN p.main ELSE p.funcs[func].chunk).constants),
              func)

AddFunction(p, map, func) ==
  IF \E i \in 1..Len(map) : map[i] = func THEN map
  ELSE AddConstants(p, Append(map, func),
                    (IF func = 0 THEN p.main ELSE p.funcs[func].chunk).constants)

CollectFunctions(p) == AddFunction(p, <<>>, 0)

FunctionIndex(map, func) == Min({i \in 1..Len(map) : map[i] = func}) - 1

Serializable(value) == value.t \in {"null", "boolean", "number", "string", "function"}

WriteConstant(map, value) ==
  CASE value.t = "null" -> WriteByte(TYPE_NULL)
    [] value.t = "boolean" -> WriteByte(TYPE_BOOL) \o WriteByte(value.n)
    [] value.t = "number" -> WriteByte(TYPE_NUMBER) \o WriteFloat64(value.n)
    [] value.t = "string" -> WriteByte(TYPE_STRING) \o WriteString(value.s)
    [] value.t = "function" ->
         WriteByte(TYPE_FUNCTION) \o WriteUint32(FunctionIndex(map, value.n))
    [] OTHER -> <<>>

RECURSIVE WriteConstants(_, _)
WriteConstants(map, constants) ==
  IF Len(constants) = 0 THEN <<>>
  ELSE IF Len(constants) = 1 THEN WriteConstant(map, Head(constants))
  ELSE LET half == Len(constants) \div 2
       IN WriteConstants(map, SubSeq(constants, 1, half))
            \o WriteConstants(map, SubSeq(constants, half + 1, Len(constants)))

\* for (const byte of bytes) this.writeByte(byte)
WriteBytes(items) == [i \in 1..Len(items) |-> WriteByte(items[i])[1]]

\* for (const line of lines) this.writeUint16(line)
WriteLines(lines) ==
  [i \in 1..(2 * Len(lines)) |-> WriteUint16(lines[(i + 1) \div 2])[2 - (i % 2)]]

WriteFunction(map, func) ==
  WriteString(func.name) \o WriteUint16(func.arity) \o WriteUint16(func.upvalueCount)
    \o WriteUint32(Len(func.chunk.constants)) \o WriteConstants(map, func.chunk.constants)
    \o WriteUint32(Len(func.chunk.code)) \o WriteBytes(func.chunk.code)
    \o WriteUint32(Len(func.chunk.lines)) \o WriteLines(func.chunk.lines)

RECURSIVE WriteFunctions(_, _, _)
WriteFunctions(p, map, i) ==
  IF i > Len(map) THEN <<>>
  ELSE WriteFunction(map,
         IF map[i] = 0
         THEN [name |-> "__main__", arity |-> 0, chunk |-> p.main, upvalueCount |-> 0]
         ELSE p.funcs[map[i]])
       \o WriteFunctions(p, map, i + 1)

\* serialize(chunk): [bytes, err]
Serialize(p) ==
  LET map == CollectFunctions(p)
      chunks == {p.main} \cup {p.funcs[map[i]].chunk : i \in {j \in 1..Len(map) : map[j] # 0}}
  IN IF \E c \in chunks : \E k \in 1..Len(c.constants) : ~Serializable(c.constants[k])
     THEN [bytes |-> <<>>, err |-> "Cannot serialize constant"]
     ELSE [bytes |-> WriteBytes(MAGIC) \o WriteByte(VERSION) \o WriteUint32(Len(map))
                       \o WriteFunctions(p, map, 1) \o WriteUint32(0),
           err |-> ""]

\* this.buffer[offset]: undefined past the end
BufferAt(buffer, offset) ==
  IF offset \in 0..(Len(buffer) - 1) THEN buffer[offset + 1] ELSE NoByte

\* A byte as an operand of << and |: undefined is 0
Bits8(byte) == IF byte = NoByte THEN 0 ELSE byte

ReadUint16(buffer, offset) ==
  Bits8(BufferAt(buffer, offset)) * 256 + Bits8(BufferAt(buffer, offset + 1))

\* (b1 << 24) | (b2 << 16) | (b3 << 8) | b4, a signed 32-bit integer
ReadUint32(buffer, offset) ==
  LET b1 == Bits8(BufferAt(buffer, offset))
  IN (IF b1 >= 128 THEN b1 - 256 ELSE b1) * 16777216
       + Bits8(BufferAt(buffer, offset + 1)) * 65536
       + Bits8(BufferAt(buffer, offset + 2)) * 256
       + Bits8(BufferAt(buffer, offset + 3))

RECURSIVE BitsOf(_, _, _)
BitsOf(buffer, offset, count) ==
  IF count = 0 THEN <<>>
  ELSE Bits(Bits8(BufferAt(buffer, offset)), 8) \o BitsOf(buffer, offset + 1, count - 1)

\* DataView.getFloat64(0, false) of the eight bytes at offset
ReadFloat64(buffer, offset) ==
  LET Value(bits, e) ==
        IF \A i \in 2..64 : bits[i] = 0 THEN Num(0)
        ELSE IF e \in 0..30 /\ \A i \in (13 + e)..64 : bits[i] = 0
        THEN Num((IF bits[1] = 1 THEN 0 - 1 ELSE 1)
                 * (Pow2(e) + FromBits(SubSeq(bits, 13, 12 + e))))
        ELSE Unmodelled
      Exponent(bits) == Value(bits, FromBits(SubSeq(bits, 2, 12)) - 1023)
  IN Exponent(BitsOf(buffer, offset, 8))

\* TextDecoder.decode of count bytes at offset
RECURSIVE DecodeString(_, _, _)
DecodeString(buffer, offset, count) ==
  IF count <= 0 THEN ""
  ELSE LET byte == Bits8(BufferAt(buffer, offset))
       IN (IF byte \in 32..126 /\ CharCode(SubSeq(Chars, byte - 31, byte - 31)) = byte
           THEN SubSeq(Chars, byte - 31, byte - 31) ELSE "?")
          \o DecodeString(buffer, offset + 1, count - 1)

\* The readers return [value, offset]: what was read and where reading goes on.
ReadString(buffer, offset) ==
  LET length == ReadUint32(buffer, offset)
  IN [value |-> DecodeString(buffer, offset + 4, length),
      offset |-> offset + 4 + (IF length > 0 THEN length ELSE 0)]

\* readConstant; a function reference is read as Val("function", index + 1),
\* the pending reference deserialize resolves once every function is read
ReadConstant(buffer, offset) ==
  LET type == BufferAt(buffer, offset)
  IN CASE type = TYPE_NULL -> [value |-> Null, offset |-> offset + 1, err |-> ""]
       [] type = TYPE_BOOL ->
            [value |-> Bool(BufferAt(buffer, offset + 1) # 0), offset |-> offset + 2,
             err |-> ""]
       [] type = TYPE_NUMBER ->
            [value |-> ReadFloat64(buffer, offset + 1), offset |-> offset + 9, err |-> ""]
       [] type = TYPE_STRING ->
            LET r == ReadString(buffer, offset + 1)
            IN [value |-> Str(r.value), offset |-> r.offset, err |-> ""]
       [] type = TYPE_FUNCTION ->
            [value |-> Val("function", ReadUint32(buffer, offset + 1) + 1, ""),
             offset |-> offset + 5, err |-> ""]
       [] OTHER -> [value |-> Undefined, offset |-> offset + 1,
                    err |-> "Unknown constant type"]

RECURSIVE ReadConstants(_, _, _, _)
ReadConstants(buffer, offset, count, constants) ==
  IF count <= 0 THEN [value |-> constants, offset |-> offset, err |-> ""]
  ELSE IF count = 1
  THEN LET r == ReadConstant(buffer, offset)
       IN IF r.err # "" THEN [value |-> constants, offset |-> r.offset, err |-> r.err]
          ELSE [value |-> Append(constants, r.value), offset |-> r.offset, err |-> ""]
  ELSE \* the loop's first count \div 2 rounds, then the rest of them
       LET r == ReadConstants(buffer, offset, count \div 2, constants)
       IN IF r.err # "" THEN r
          ELSE ReadConstants(buffer, r.offset, count - count \div 2, r.value)

ReadFunction(buffer, offset) ==
  LET Function(name, arity, upvalueCount, constants, code, lines, end) ==
        [value |-> [name |-> name, arity |-> arity, upvalueCount |-> upvalueCount,
                    chunk |-> [name |-> name, code |-> code, constants |-> constants.value,
                               lines |-> lines, marks |-> {}, logical |-> {}]],
         offset |-> end, err |-> constants.err]
      Lines(name, constants, codeAt, codeLength, linesAt, linesLength) ==
        Function(name.value, ReadUint16(buffer, name.offset),
                 ReadUint16(buffer, name.offset + 2), constants,
                 [i \in 1..codeLength |-> BufferAt(buffer, codeAt + i - 1)],
                 [i \in 1..linesLength |-> ReadUint16(buffer, linesAt + 4 + 2 * (i - 1))],
                 linesAt + 4 + (IF linesLength > 0 THEN 2 * linesLength ELSE 0))
      Code(name, constants, codeAt, codeLength, linesAt) ==
        Lines(name, constants, codeAt, codeLength, linesAt, ReadUint32(buffer, linesAt))
      CodeLength(name, constants, codeLength) ==
        Code(name, constants, constants.offset + 4, codeLength,
             constants.offset + 4 + (IF codeLength > 0 THEN codeLength ELSE 0))
      Constants(name, constants) ==
        CodeLength(name, constants, ReadUint32(buffer, constants.offset))
      Name(name) ==
        Constants(name, ReadConstants(buffer, name.offset + 8,
                                      ReadUint32(buffer, name.offset + 4), <<>>))
  IN Name(ReadString(buffer, offset))

RECURSIVE ReadFunctions(_, _, _, _)
ReadFunctions(buffer, offset, count, functions) ==
  IF count <= 0 THEN [value |-> functions, offset |-> offset, err |-> ""]
  ELSE LET r == ReadFunction(buffer, offset)
       IN IF r.err # "" THEN [value |-> functions, offset |-> r.offset, err |-> r.err]
          ELSE ReadFunctions(buffer, r.offset, count - 1, Append(functions, r.value))

\* The pending references resolved: this.functions[index], undefined if absent
Resolve(functions, chunk) ==
  [chunk EXCEPT !.constants =
     [k \in 1..Len(@) |->
        IF @[k].t = "function" /\ @[k].n \notin 1..Len(functions) THEN Undefined ELSE @[k]]]

\* deserialize(bytes): the program [main, funcs, err]; funcs[i + 1] is
\* this.functions[i]
Deserialize(buffer) ==
  LET failed(msg) == [main |-> NewChunk("main"), funcs |-> <<>>, err |-> msg]
      Main(functions, mainIndex) ==
        IF mainIndex \notin 0..(Len(functions) - 1) THEN failed("TypeError")
        ELSE [main |-> functions[mainIndex + 1].chunk, funcs |-> functions, err |-> ""]
      Functions(r) ==
        IF r.err # "" THEN failed(r.err)
        ELSE Main([i \in 1..Len(r.value) |->
                     [r.value[i] EXCEPT !.chunk = Resolve(r.value, @)]],
                  ReadUint32(buffer, r.offset))
  IN IF [i \in 1..5 |-> BufferAt(buffer, i - 1)] # MAGIC
     THEN failed("Invalid bytecode file: bad magic number")
     ELSE IF BufferAt(buffer, 5) # VERSION THEN failed("Unsupported bytecode version")
     ELSE Functions(ReadFunctions(buffer, 10, ReadUint32(buffer, 6), <<>>))

(***************************************************************************)
(* The programs the model runs, each the AST Parser.parse returns for the  *)
(* source text quoted above it.                                            *)
(***************************************************************************)
Programs ==
  LET None == [type |-> "None"]
      NumLit(v) == [type |-> "NumberLiteral", value |-> v, line |-> 1]
      StrLit(v) == [type |-> "StringLiteral", value |-> v, line |-> 1]
      BoolLit(v) == [type |-> "BooleanLiteral", value |-> v, line |-> 1]
      Arr(es) == [type |-> "ArrayLiteral", elements |-> es, line |-> 1]
      Id(n) == [type |-> "Identifier", name |-> n, line |-> 1]
      Bin(l, op, r) == [type |-> "BinaryExpression", left |-> l, operator |-> op,
                        right |-> r, line |-> 1]
      Logic(l, op, r) == [type |-> "LogicalExpression", left |-> l, operator |-> op,
                          right |-> r, line |-> 1]
      Call(c, as) == [type |-> "CallExpression", callee |-> c, arguments |-> as, line |-> 1]
      Index(o, i) == [type |-> "IndexExpression", object |-> o, index |-> i, line |-> 1]
      Update(n, op, pre) == [type |-> "UpdateExpression", name |-> n, operator |-> op,
                             prefix |-> pre, line |-> 1]
      Ring(n, v) == [type |-> "VariableDeclaration", name |-> n, value |-> v, line |-> 1]
      Assign(n, v) == [type |-> "Assignment", name |-> n, value |-> v, line |-> 1]
      Compound(n, op, v) == [type |-> "CompoundAssignment", name |-> n, operator |-> op,
                             value |-> v, line |-> 1]
      Block(ss) == [type |-> "BlockStatement", statements |-> ss, line |-> 1]
      Expr(e) == [type |-> "ExpressionStatement", expression |-> e, line |-> 1]
      Sing(v) == [type |-> "PrintStatement", value |-> v, line |-> 1]
      Perhaps(c, t) == [type |-> "IfStatement", condition |-> c, thenBranch |-> t,
                        elseBranch |-> None, line |-> 1]
      Wander(c, b) == [type |-> "WhileStatement", condition |-> c, body |-> b, line |-> 1]
      Journey(v, it, b) == [type |-> "ForInStatement", variable |-> v, iterable |-> it,
                            body |-> b, line |-> 1]
      Flee == [type |-> "BreakStatement", line |-> 1]
      Onwards == [type |-> "ContinueStatement", line |-> 1]
      Song(n, ps, b) == [type |-> "FunctionDeclaration", name |-> n, params |-> ps,
                         body |-> b, line |-> 1]
      Answer(v) == [type |-> "ReturnStatement", value |-> v, line |-> 1]
      Lambda(ps, b) == [type |-> "LambdaExpression", params |-> ps, body |-> b,
                        block |-> FALSE, line |-> 1]
      LambdaBlock(ps, b) == [type |-> "LambdaExpression", params |-> ps, body |-> b,
                             block |-> TRUE, line |-> 1]
      Program(ss) == [type |-> "Program", statements |-> ss]
      \* song bump() { sing "b" answer goldberry }
      Bump == Song("bump", <<>>, <<Sing(StrLit("b")), Answer(BoolLit(TRUE))>>)
  IN <<
    \* 1: song makeCounter(){ ring c = 0; song inc(){ c = c + 1; answer c } answer inc }
    \*    ring f = makeCounter(); sing f(); sing f(); sing f()
    Program(<<Song("makeCounter", <<>>,
                <<Ring("c", NumLit(0)),
                  Song("inc", <<>>, <<Assign("c", Bin(Id("c"), "+", NumLit(1))),
                                      Answer(Id("c"))>>),
                  Answer(Id("inc"))>>),
              Ring("f", Call(Id("makeCounter"), <<>>)),
              Sing(Call(Id("f"), <<>>)), Sing(Call(Id("f"), <<>>)),
              Sing(Call(Id("f"), <<>>))>>),
    \* 2: song pair(){ ring x = 10; song getX(){ answer x } song setX(v){ x = v }
    \*      answer [getX, setX] }
    \*    ring p = pair(); sing p[0](); p[1](42); sing p[0]()
    Program(<<Song("pair", <<>>,
                <<Ring("x", NumLit(10)),
                  Song("getX", <<>>, <<Answer(Id("x"))>>),
                  Song("setX", <<"v">>, <<Assign("x", Id("v"))>>),
                  Answer(Arr(<<Id("getX"), Id("setX")>>))>>),
              Ring("p", Call(Id("pair"), <<>>)),
              Sing(Call(Index(Id("p"), NumLit(0)), <<>>)),
              Expr(Call(Index(Id("p"), NumLit(1)), <<NumLit(42)>>)),
              Sing(Call(Index(Id("p"), NumLit(0)), <<>>))>>),
    \* 3: song live(){ ring x = 10; song getX(){ answer x } song setX(v){ x = v }
    \*      setX(5); sing getX(); sing x }
    \*    live()
    Program(<<Song("live", <<>>,
                <<Ring("x", NumLit(10)),
                  Song("getX", <<>>, <<Answer(Id("x"))>>),
                  Song("setX", <<"v">>, <<Assign("x", Id("v"))>>),
                  Expr(Call(Id("setX"), <<NumLit(5)>>)),
                  Sing(Call(Id("getX"), <<>>)),
                  Sing(Id("x"))>>),
              Expr(Call(Id("live"), <<>>))>>),
    \* 4: ring i = 0; ring s = 0
    \*    wander (i < 10) { i = i + 1; perhaps (i == 5) { onwards }
    \*                      perhaps (i == 8) { flee } s = s + i }
    \*    sing s
    Program(<<Ring("i", NumLit(0)), Ring("s", NumLit(0)),
              Wander(Bin(Id("i"), "<", NumLit(10)),
                Block(<<Assign("i", Bin(Id("i"), "+", NumLit(1))),
                        Perhaps(Bin(Id("i"), "==", NumLit(5)), Block(<<Onwards>>)),
                        Perhaps(Bin(Id("i"), "==", NumLit(8)), Block(<<Flee>>)),
                        Assign("s", Bin(Id("s"), "+", Id("i")))>>)),
              Sing(Id("s"))>>),
    \* 5: ring xs = [2,3,5,7]; ring t = 0; journey (x in xs) { t = t + x } sing t
    Program(<<Ring("xs", Arr(<<NumLit(2), NumLit(3), NumLit(5), NumLit(7)>>)),
              Ring("t", NumLit(0)),
              Journey("x", Id("xs"), Block(<<Assign("t", Bin(Id("t"), "+", Id("x")))>>)),
              Sing(Id("t"))>>),
    \* 6: ring a = sauron; ring b = goldberry; ring r = a with b; sing r
    Program(<<Ring("a", BoolLit(FALSE)), Ring("b", BoolLit(TRUE)),
              Ring("r", Logic(Id("a"), "with", Id("b"))), Sing(Id("r"))>>),
    \* 7: song bump() { sing "b" answer goldberry }
    \*    sing sauron with bump(); sing goldberry with bump()
    \*    sing 7 either bump(); sing shadow either bump()
    Program(<<Bump,
              Sing(Logic(BoolLit(FALSE), "with", Call(Id("bump"), <<>>))),
              Sing(Logic(BoolLit(TRUE), "with", Call(Id("bump"), <<>>))),
              Sing(Logic(NumLit(7), "either", Call(Id("bump"), <<>>))),
              Sing(Logic([type |-> "NullLiteral", line |-> 1], "either",
                         Call(Id("bump"), <<>>)))>>),
    \* 8: song bump() { sing "b" answer goldberry }
    \*    sing 0 with bump()
    Program(<<Bump, Sing(Logic(NumLit(0), "with", Call(Id("bump"), <<>>)))>>),
    \* 9: ring r = map([1, 2], (n, i) => n * 2); sing r
    Program(<<Ring("r", Call(Id("map"),
                          <<Arr(<<NumLit(1), NumLit(2)>>),
                            Lambda(<<"n", "i">>, Bin(Id("n"), "*", NumLit(2)))>>)),
              Sing(Id("r"))>>),
    \* 10: song f() { ring a = 5; ring r = map([1], (n, i) => n); answer a }
    \*     sing f()
    Program(<<Song("f", <<>>,
                <<Ring("a", NumLit(5)),
                  Ring("r", Call(Id("map"), <<Arr(<<NumLit(1)>>),
                                              Lambda(<<"n", "i">>, Id("n"))>>)),
                  Answer(Id("a"))>>),
              Sing(Call(Id("f"), <<>>))>>),
    \* 11: song f(a) { answer a }  sing f(1, 2)
    Program(<<Song("f", <<"a">>, <<Answer(Id("a"))>>),
              Sing(Call(Id("f"), <<NumLit(1), NumLit(2)>>))>>),
    \* 12: ring x = 1; x = 2; sing x
    Program(<<Ring("x", NumLit(1)), Assign("x", NumLit(2)), Sing(Id("x"))>>),
    \* 13: wander (goldberry) { song g() { flee } g() flee }
    Program(<<Wander(BoolLit(TRUE),
                Block(<<Song("g", <<>>, <<Flee>>),
                        Expr(Call(Id("g"), <<>>)),
                        Flee>>))>>),
    \* 14: song f() { { ring a = 1; ring g = () => a; sing g() } answer 2 }  sing f()
    Program(<<Song("f", <<>>,
                <<Block(<<Ring("a", NumLit(1)),
                          Ring("g", Lambda(<<>>, Id("a"))),
                          Sing(Call(Id("g"), <<>>))>>),
                  Answer(NumLit(2))>>),
              Sing(Call(Id("f"), <<>>))>>),
    \* 15: song outer() { ring x = 1; song mid() { song inner() { answer x } answer inner }
    \*       answer mid }
    \*     sing outer()()()
    Program(<<Song("outer", <<>>,
                <<Ring("x", NumLit(1)),
                  Song("mid", <<>>, <<Song("inner", <<>>, <<Answer(Id("x"))>>),
                                      Answer(Id("inner"))>>),
                  Answer(Id("mid"))>>),
              Sing(Call(Call(Call(Id("outer"), <<>>), <<>>), <<>>))>>),
    \* 16: perhaps (sauron) { sing [1,1,1,1,1,1,1,1] ... }   (BigBody times)
    Program(<<Perhaps(BoolLit(FALSE),
                      Block([i \in 1..BigBody |-> Sing(Arr([k \in 1..8 |-> NumLit(1)]))]))>>),
    \* 17: song two() { ring a = 1; ring b = 2; ring f = () => a + b; answer f }
    \*     sing two()()
    Program(<<Song("two", <<>>,
                <<Ring("a", NumLit(1)), Ring("b", NumLit(2)),
                  Ring("f", Lambda(<<>>, Bin(Id("a"), "+", Id("b")))),
                  Answer(Id("f"))>>),
              Sing(Call(Call(Id("two"), <<>>), <<>>))>>),
    \* 18: ring a = [1]; a[0] = 2; ring n = 0; n++; ++n; n += 3
    \*     sing none (n == 5); sing a; sing -n % 2
    Program(<<Ring("a", Arr(<<NumLit(1)>>)),
              [type |-> "IndexAssignment", object |-> Id("a"), index |-> NumLit(0),
               value |-> NumLit(2), line |-> 1],
              Ring("n", NumLit(0)),
              Update("n", "++", FALSE), Update("n", "++", TRUE),
              Compound("n", "+", NumLit(3)),
              Sing([type |-> "UnaryExpression", operator |-> "none",
                    operand |-> Bin(Id("n"), "==", NumLit(5)), line |-> 1]),
              Sing(Id("a")),
              Sing(Bin([type |-> "UnaryExpression", operator |-> "-",
                        operand |-> Id("n"), line |-> 1], "%", NumLit(2)))>>),
    \* 19: sing abs(1, 2)
    Program(<<Sing(Call(Id("abs"), <<NumLit(1), NumLit(2)>>))>>),
    \* 20: sing 5 % 0  sing 5 / 0
    Program(<<Sing(Bin(NumLit(5), "%", NumLit(0))), Sing(Bin(NumLit(5), "/", NumLit(0)))>>),
    \* 21: sing "v" + goldberry; sing [1, 2] + "w"; sing "n" + 1; sing (template) v=${sauron}
    Program(<<Sing(Bin(StrLit("v"), "+", BoolLit(TRUE))),
              Sing(Bin(Arr(<<NumLit(1), NumLit(2)>>), "+", StrLit("w"))),
              Sing(Bin(StrLit("n"), "+", NumLit(1))),
              Sing([type |-> "TemplateLiteral", line |-> 1,
                    parts |-> <<[type |-> "text", value |-> "v="],
                                [type |-> "expression", value |-> BoolLit(FALSE)]>>])>>),
    \* 22: song f() { ring a = 1; ring g = () => a; sing 1 / 0 }  f()
    Program(<<Song("f", <<>>,
                <<Ring("a", NumLit(1)),
                  Ring("g", Lambda(<<>>, Id("a"))),
                  Sing(Bin(NumLit(1), "/", NumLit(0)))>>),
              Expr(Call(Id("f"), <<>>))>>),
    \* 23: journey (i in range(5)) { perhaps (i == 2) { onwards } sing i }
    Program(<<Journey("i", Call(Id("range"), <<NumLit(5)>>),
                Block(<<Perhaps(Bin(Id("i"), "==", NumLit(2)), Block(<<Onwards>>)),
                        Sing(Id("i"))>>))>>),
    \* 24: precious PI = 3  PI = 4  PI += 1  sing PI
    Program(<<[type |-> "VariableDeclaration", name |-> "PI", value |-> NumLit(3),
               isConstant |-> TRUE, line |-> 1],
              Assign("PI", NumLit(4)),
              Compound("PI", "+", NumLit(1)),
              Sing(Id("PI"))>>),
    \* 25: ring r = map([1, 2], (n) => n * 2)  sing r
    Program(<<Ring("r", Call(Id("map"), <<Arr(<<NumLit(1), NumLit(2)>>),
                                          Lambda(<<"n">>, Bin(Id("n"), "*", NumLit(2)))>>)),
              Sing(Id("r"))>>),
    \* 26: { wander (goldberry) { ring a = 1  flee }  ring b = 3  sing b }
    Program(<<Block(<<Wander(BoolLit(TRUE), Block(<<Ring("a", NumLit(1)), Flee>>)),
                      Ring("b", NumLit(3)),
                      Sing(Id("b"))>>)>>),
    \* 27: { ring x = 0  ring y = 0
    \*       wander (goldberry) { ring a = 1  ring g = () => a  flee } }
    Program(<<Block(<<Ring("x", NumLit(0)), Ring("y", NumLit(0)),
                      Wander(BoolLit(TRUE),
                             Block(<<Ring("a", NumLit(1)),
                                     Ring("g", Lambda(<<>>, Id("a"))),
                                     Flee>>))>>)>>),
    \* 28: { ring m = 1  sing m--  sing m }
    \*     ring n = 5  sing n++  sing n  sing ++n  sing n
    Program(<<Block(<<Ring("m", NumLit(1)),
                      Sing(Update("m", "--", FALSE)), Sing(Id("m"))>>),
              Ring("n", NumLit(5)),
              Sing(Update("n", "++", FALSE)), Sing(Id("n")),
              Sing(Update("n", "++", TRUE)), Sing(Id("n"))>>),
    \* 29: sing 1  flee
    Program(<<Sing(NumLit(1)), Flee>>),
    \* 30: journey (x in [1]) { ring h = () => { onwards } }
    Program(<<Journey("x", Arr(<<NumLit(1)>>),
                Block(<<Ring("h", LambdaBlock(<<>>, <<Onwards>>))>>))>>),
    \* 31: song makeCounter() { ring c = 0; song inc() { c = c + 1; answer c }
    \*       answer inc }
    \*     ring f = makeCounter()  ring g = makeCounter()  sing f() sing f() sing g()
    Program(<<Song("makeCounter", <<>>,
                <<Ring("c", NumLit(0)),
                  Song("inc", <<>>, <<Assign("c", Bin(Id("c"), "+", NumLit(1))),
                                      Answer(Id("c"))>>),
                  Answer(Id("inc"))>>),
              Ring("f", Call(Id("makeCounter"), <<>>)),
              Ring("g", Call(Id("makeCounter"), <<>>)),
              Sing(Call(Id("f"), <<>>)), Sing(Call(Id("f"), <<>>)),
              Sing(Call(Id("g"), <<>>))>>),
    \* 32: song outer() { ring x = 1
    \*       song mid() { song inner() { x = x + 1; answer x } answer inner }
    \*       ring i = mid()  sing i()  sing x }
    \*     outer()
    Program(<<Song("outer", <<>>,
                <<Ring("x", NumLit(1)),
                  Song("mid", <<>>,
                       <<Song("inner", <<>>, <<Assign("x", Bin(Id("x"), "+", NumLit(1))),
                                               Answer(Id("x"))>>),
                         Answer(Id("inner"))>>),
                  Ring("i", Call(Id("mid"), <<>>)),
                  Sing(Call(Id("i"), <<>>)),
                  Sing(Id("x"))>>),
              Expr(Call(Id("outer"), <<>>))>>),
    \* 33: song big() { sing [20, 21, ..., 38]  sing [39, ..., 57]  ...   (BigBody
    \*                  times, ManyElements distinct numbers each)
    \*                  song late() { } }
    Program(<<Song("big", <<>>,
                   [i \in 1..BigBody |->
                      Sing(Arr([k \in 1..ManyElements |-> NumLit(ManyElements * i + k)]))]
                   \o <<Song("late", <<>>, <<>>)>>)>>),
    \* 34: { ring a = 1  a = 2  a += 3  a++  ring b = 9  sing a  sing b }
    Program(<<Block(<<Ring("a", NumLit(1)), Assign("a", NumLit(2)),
                      Compound("a", "+", NumLit(3)), Update("a", "++", FALSE),
                      Ring("b", NumLit(9)), Sing(Id("a")), Sing(Id("b"))>>)>>),
    \* 35: journey (x in [3, 5, 9]) { sing x }  sing 0
    Program(<<Journey("x", Arr(<<NumLit(3), NumLit(5), NumLit(9)>>), Block(<<Sing(Id("x"))>>)),
              Sing(NumLit(0))>>),
    \* 36: ring fs = []  journey (x in [3, 5]) { push(fs, () => x)  sing fs[0]() }
    \*     sing fs[0]()  sing fs[1]()
    Program(<<Ring("fs", Arr(<<>>)),
              Journey("x", Arr(<<NumLit(3), NumLit(5)>>),
                Block(<<Expr(Call(Id("push"), <<Id("fs"), Lambda(<<>>, Id("x"))>>)),
                        Sing(Call(Index(Id("fs"), NumLit(0)), <<>>))>>)),
              Sing(Call(Index(Id("fs"), NumLit(0)), <<>>)),
              Sing(Call(Index(Id("fs"), NumLit(1)), <<>>))>>),
    \* 37: sing goldberry - 1  sing sauron + 1  sing 7()
    Program(<<Sing(Bin(BoolLit(TRUE), "-", NumLit(1))),
              Sing(Bin(BoolLit(FALSE), "+", NumLit(1))),
              Sing(Call(NumLit(7), <<>>))>>),
    \* 38: song f() { song g() {} }  song h() {}
    Program(<<Song("f", <<>>, <<Song("g", <<>>, <<>>)>>), Song("h", <<>>, <<>>)>>)
  >>

(***************************************************************************)
(* The CLI paths (bin/tmbdl.js) and the VM's instruction loop as actions.  *)
(***************************************************************************)
NoProgram == [main |-> NewChunk("main"), funcs |-> <<>>, err |-> ""]

\* No module is being loaded: the host of a program without imports.
NoHost == [files |-> <<>>, moduleCache |-> <<>>, vms |-> <<>>, starts |-> <<>>,
           status |-> "idle"]

Init ==
  /\ src \in 1..Len(Programs)
  /\ phase = "source"
  /\ prog = NoProgram
  /\ bytes = <<>>
  /\ loaded = NoProgram
  /\ vm = NewVM
  /\ prev = NewVM
  /\ host = NoHost

\* runVM / buildBytecode: new CodeGenerator().generate(ast)
Compile ==
  /\ phase = "source"
  /\ prog' = Generate(Programs[src])
  /\ phase' = IF prog'.err = "" THEN "compiled" ELSE "failed"
  /\ UNCHANGED <<src, bytes, loaded, vm, prev, host>>

\* runVM: new VM(...).run(chunk) on the chunk just generated
RunCompiled ==
  /\ phase = "compiled"
  /\ loaded' = prog
  /\ phase' = "run"
  /\ vm' = Run(NewVM)
  /\ prev' = NewVM
  /\ UNCHANGED <<src, prog, bytes, host>>

\* buildBytecode: serializeBytecode(chunk) written to the .tmbdlc file
BuildBytecode ==
  /\ phase = "compiled"
  /\ Serialize(prog).err = ""
  /\ bytes' = Serialize(prog).bytes
  /\ phase' = "built"
  /\ UNCHANGED <<src, prog, loaded, vm, prev, host>>

\* execBytecode: deserializeBytecode(bytecode), then new VM().run(chunk)
ExecBytecode ==
  /\ phase = "built"
  /\ loaded' = Deserialize(bytes)
  /\ phase' = IF loaded'.err = "" THEN "run" ELSE "failed"
  /\ vm' = IF loaded'.err = "" THEN Run(NewVM) ELSE NewVM
  /\ prev' = NewVM
  /\ UNCHANGED <<src, prog, bytes, host>>

\* execBytecode on a file cut short: deserializeBytecode of a proper prefix of
\* the container that keeps the header (the magic and the version byte), for
\* containers of at most MaxFile bytes
ExecTruncated ==
  /\ phase = "built"
  /\ Len(bytes) <= MaxFile
  /\ \E n \in 6..(Len(bytes) - 1) : loaded' = Deserialize(SubSeq(bytes, 1, n))
  /\ phase' = "truncated"
  /\ UNCHANGED <<src, prog, bytes, vm, prev, host>>

\* The guard every instruction action shares.
Executing(ops) ==
  /\ phase = "run"
  /\ vm.status = "running"
  /\ vm.steps < MaxSteps
  /\ Byte(vm) \in ops

\* One turn of execute's loop: readByte has fetched the instruction and r is the
\* machine its case leaves.  A value outside the model ends the run as "unmodelled".
Step(r) ==
  /\ vm' = IF r.status = "running" /\ Len(r.stack) > 0 /\ Peek(r, 0) = Unmodelled
           THEN [r EXCEPT !.status = "unmodelled", !.steps = @ + 1]
           ELSE [r EXCEPT !.steps = @ + 1]
  /\ prev' = vm
  /\ UNCHANGED <<src, phase, prog, bytes, loaded, host>>

Modelled ==
  {PUSH_CONST, POP, DUP, ADD, SUB, MUL, DIV, MOD, NEG, EQ, NEQ, LT, LTE, GT, GTE, NOT,
   LOAD, STORE, LOAD_GLOBAL, STORE_GLOBAL, JUMP, JUMP_IF_FALSE, JUMP_IF_TRUE, LOOP,
   CALL, RETURN, MAKE_CLOSURE, GET_UPVALUE, SET_UPVALUE, CLOSE_UPVALUE, PRINT,
   MAKE_ARRAY, INDEX_GET, INDEX_SET, LENGTH, HALT}

\* The cases of execute's switch, one action each.
PushConst == Executing({PUSH_CONST}) /\ Step(OpPushConst(ReadByte(vm)))
PopTop == Executing({POP}) /\ Step(Pop(ReadByte(vm)))
Duplicate == Executing({DUP}) /\ Step(OpDup(ReadByte(vm)))
Arithmetic ==
  Executing({ADD, SUB, MUL, DIV, MOD, NEG}) /\ Step(OpArith(ReadByte(vm), Byte(vm)))
Comparison ==
  Executing({EQ, NEQ, LT, LTE, GT, GTE}) /\ Step(OpCompare(ReadByte(vm), Byte(vm)))
Negation == Executing({NOT}) /\ Step(OpNot(ReadByte(vm)))
LoadLocal == Executing({LOAD}) /\ Step(OpLoad(ReadByte(vm)))
StoreLocal == Executing({STORE}) /\ Step(OpStore(ReadByte(vm)))
LoadGlobal == Executing({LOAD_GLOBAL}) /\ Step(OpLoadGlobal(ReadByte(vm)))
StoreGlobal == Executing({STORE_GLOBAL}) /\ Step(OpStoreGlobal(ReadByte(vm)))
Jump == Executing({JUMP}) /\ Step(OpJump(ReadByte(vm), JUMP))
JumpIf ==
  Executing({JUMP_IF_FALSE, JUMP_IF_TRUE}) /\ Step(OpJump(ReadByte(vm), Byte(vm)))
LoopBack == Executing({LOOP}) /\ Step(OpJump(ReadByte(vm), LOOP))
CallInstr == Executing({CALL}) /\ Step(OpCall(ReadByte(vm)))
ReturnInstr == Executing({RETURN}) /\ Step(OpReturn(ReadByte(vm)))
MakeClosure == Executing({MAKE_CLOSURE}) /\ Step(OpMakeClosure(ReadByte(vm)))
GetUpvalue == Executing({GET_UPVALUE}) /\ Step(OpGetUpvalue(ReadByte(vm)))
SetUpvalue == Executing({SET_UPVALUE}) /\ Step(OpSetUpvalue(ReadByte(vm)))
CloseUpvalue == Executing({CLOSE_UPVALUE}) /\ Step(OpCloseUpvalue(ReadByte(vm)))
PrintTop == Executing({PRINT}) /\ Step(OpPrint(ReadByte(vm)))
MakeArray == Executing({MAKE_ARRAY}) /\ Step(OpMakeArray(ReadByte(vm)))
IndexGet == Executing({INDEX_GET}) /\ Step(OpIndexGet(ReadByte(vm)))
IndexSet == Executing({INDEX_SET}) /\ Step(OpIndexSet(ReadByte(vm)))
LengthOf == Executing({LENGTH}) /\ Step(OpLength(ReadByte(vm)))
Halt == Executing({HALT}) /\ Step(OpHalt(ReadByte(vm)))
\* Any other byte: an opcode outside the model, or execute's default case.
Fault ==
  /\ Executing(((0..255) \cup {NoByte}) \ Modelled)
  /\ Step(IF Byte(vm) \in {EYEOF, MAKE_OBJECT, GET_PROP, SET_PROP, IMPORT, EXPORT}
          THEN [ReadByte(vm) EXCEPT !.status = "unmodelled"]
          ELSE Fail(ReadByte(vm), "Unknown opcode"))

Next ==
  \/ Compile
  \/ RunCompiled
  \/ BuildBytecode
  \/ ExecBytecode
  \/ ExecTruncated
  \/ PushConst
  \/ PopTop
  \/ Duplicate
  \/ Arithmetic
  \/ Comparison
  \/ Negation
  \/ LoadLocal
  \/ StoreLocal
  \/ LoadGlobal
  \/ StoreGlobal
  \/ Jump
  \/ JumpIf
  \/ LoopBack
  \/ CallInstr
  \/ ReturnInstr
  \/ MakeClosure
  \/ GetUpvalue
  \/ SetUpvalue
  \/ CloseUpvalue
  \/ PrintTop
  \/ MakeArray
  \/ IndexGet
  \/ IndexSet
  \/ LengthOf
  \/ Halt
  \/ Fault

Spec == Init /\ [][Next]_vars

(***************************************************************************)
(* The open-upvalue list on its own: captureUpvalue and closeUpvalues      *)
(* called in any order on a machine whose stack holds UpSlots values.      *)
(***************************************************************************)
InitUpvalues ==
  /\ src = 0
  /\ phase = "upvalues"
  /\ prog = NoProgram
  /\ bytes = <<>>
  /\ loaded = NoProgram
  /\ vm = PushAll(NewVM, [i \in 1..UpSlots |-> Num(i)])
  /\ prev = NewVM
  /\ host = NoHost

Capture(stackIndex) ==
  /\ phase = "upvalues"
  /\ Len(vm.upvalues) < MaxUpvalues
  /\ vm' = CaptureUpvalue(vm, stackIndex).m
  /\ prev' = vm
  /\ UNCHANGED <<src, phase, prog, bytes, loaded, host>>

Close(lastIndex) ==
  /\ phase = "upvalues"
  /\ vm' = CloseUpvalues(vm, lastIndex)
  /\ prev' = vm
  /\ UNCHANGED <<src, phase, prog, bytes, loaded, host>>

NextUpvalues ==
  \/ \E stackIndex \in 0..(UpSlots - 1) : Capture(stackIndex)
  \/ \E lastIndex \in 0..UpSlots : Close(lastIndex)

SpecUpvalues == InitUpvalues /\ [][NextUpvalues]_vars

(***************************************************************************)
(* Module loading (bin/tmbdl.js createModuleLoader, VM.loadModule): the     *)
(* files of one directory, each a list of the files its summon statements  *)
(* import in order.  host.vms is the stack of nested VM.run calls, the     *)
(* entry file's VM first; every VM shares host.moduleCache, which is keyed *)
(* both by the path as written (VM.loadModule) and by the resolved path    *)
(* (the loader).                                                           *)
(***************************************************************************)
NFiles == 2
MaxImports == 2
MaxStarts == 2

ImportLists == UNION {[1..n -> 1..NFiles] : n \in 0..MaxImports}

\* The keys of the cache: modulePath as the importing file wrote it, and
\* fullPath as resolve(basePath, modulePath) made it
ModulePath(file) == <<"modulePath", file>>
FullPath(file) == <<"fullPath", file>>

\* The values of the cache: the {} the loader seeds, and the exports object
\* of the VM that ran the file
Placeholder == [exports |-> 0]
Exports(file) == [exports |-> file]

\* Map.set(key, value)
CacheSet(moduleCache, key, value) ==
  [k \in DOMAIN moduleCache \cup {key} |-> IF k = key THEN value ELSE moduleCache[k]]

\* The variant of Seed that marks nothing as loading
SeedNothing(moduleCache, file) == moduleCache

\* loadModule of the loader: moduleCache.set(fullPath, {}) before the module runs
Seed(moduleCache, file) == CacheSet(moduleCache, FullPath(file), Placeholder)

\* The VM that is running, and the file its next IMPORT names (0 at the end).
TopVM == host.vms[Len(host.vms)]
ImportOf(m) ==
  IF m.ip \in 1..Len(host.files[m.currentFile]) THEN host.files[m.currentFile][m.ip] ELSE 0

\* IMPORT has pushed the exports: the running VM goes on with its next statement
Advance(vms) == [vms EXCEPT ![Len(vms)].ip = @ + 1]

InitModules ==
  /\ src = 0
  /\ phase = "modules"
  /\ prog = NoProgram
  /\ bytes = <<>>
  /\ loaded = NoProgram
  /\ vm = NewVM
  /\ prev = NewVM
  /\ \E files \in [1..NFiles -> ImportLists] :
       host = [files |-> files, moduleCache |-> <<>>,
               vms |-> <<[currentFile |-> 1, ip |-> 1]>>,
               starts |-> [f \in 1..NFiles |-> 0], status |-> "running"]

Importing == phase = "modules" /\ host.status = "running" /\ ImportOf(TopVM) # 0

\* IMPORT, VM.loadModule: this.moduleCache has modulePath
ImportCached ==
  /\ Importing
  /\ ModulePath(ImportOf(TopVM)) \in DOMAIN host.moduleCache
  /\ host' = [host EXCEPT !.vms = Advance(@)]
  /\ UNCHANGED <<src, phase, prog, bytes, loaded, vm, prev>>

\* IMPORT, VM.loadModule calls the loader, whose cache has fullPath: what it
\* holds is returned and cached under modulePath
LoaderCached ==
  /\ Importing
  /\ ModulePath(ImportOf(TopVM)) \notin DOMAIN host.moduleCache
  /\ FullPath(ImportOf(TopVM)) \in DOMAIN host.moduleCache
  /\ host' = [host EXCEPT
       !.moduleCache = CacheSet(@, ModulePath(ImportOf(TopVM)), @[FullPath(ImportOf(TopVM))]),
       !.vms = Advance(@)]
  /\ UNCHANGED <<src, phase, prog, bytes, loaded, vm, prev>>

\* IMPORT, VM.loadModule calls the loader, which marks fullPath as loading,
\* compiles the file and runs it in a new VM that shares the cache
LoaderRun ==
  /\ Importing
  /\ ModulePath(ImportOf(TopVM)) \notin DOMAIN host.moduleCache
  /\ FullPath(ImportOf(TopVM)) \notin DOMAIN host.moduleCache
  /\ host.starts[ImportOf(TopVM)] < MaxStarts
  /\ host' = [host EXCEPT
       !.moduleCache = Seed(@, ImportOf(TopVM)),
       !.vms = Append(@, [currentFile |-> ImportOf(TopVM), ip |-> 1]),
       !.starts[ImportOf(TopVM)] = @ + 1]
  /\ UNCHANGED <<src, phase, prog, bytes, loaded, vm, prev>>

\* moduleVM.run(chunk) returns: the loader caches the exports under fullPath,
\* VM.loadModule of the importing VM caches them under modulePath and IMPORT
\* pushes them
ModuleReturn ==
  /\ phase = "modules" /\ host.status = "running"
  /\ ImportOf(TopVM) = 0
  /\ Len(host.vms) > 1
  /\ host' = [host EXCEPT
       !.moduleCache = CacheSet(CacheSet(@, FullPath(TopVM.currentFile),
                                         Exports(TopVM.currentFile)),
                                ModulePath(TopVM.currentFile), Exports(TopVM.currentFile)),
       !.vms = Advance(SubSeq(@, 1, Len(@) - 1))]
  /\ UNCHANGED <<src, phase, prog, bytes, loaded, vm, prev>>

\* runVM: vm.run(chunk) of the entry file returns
EntryReturn ==
  /\ phase = "modules" /\ host.status = "running"
  /\ ImportOf(TopVM) = 0
  /\ Len(host.vms) = 1
  /\ host' = [host EXCEPT !.status = "finished"]
  /\ UNCHANGED <<src, phase, prog, bytes, loaded, vm, prev>>

NextModules ==
  \/ ImportCached
  \/ LoaderCached
  \/ LoaderRun
  \/ ModuleReturn
  \/ EntryReturn

\* A VM.run that can take a step takes it: JavaScript runs to completion.
SpecModules == InitModules /\ [][NextModules]_vars /\ WF_vars(NextModules)

(***************************************************************************)
(* Linking (bin/tmbdl.js createModuleLoader and runVM, VM.loadModule, the   *)
(* IMPORT, EXPORT, LOAD_GLOBAL and STORE_GLOBAL instructions): files in    *)
(* directories, named by the segments of their resolved path below the     *)
(* directory of the entry file, with the                                   *)
(* program text                                                            *)
(*   summon "<path>" as m1  ...   ring tag = <this file>                   *)
(*   share song who() { answer tag }   sing m1.who()  ...                  *)
(* host.vms is the stack of nested VM.run calls; each VM has its own       *)
(* globals, exports and value stack, and all share host.moduleCache.       *)
(***************************************************************************)
\* The summon statements of the entry file and of a module, at most.
LinkImports == 2
ModImports == 1

EntryFile == <<"main">>
LinkFiles == {EntryFile, <<"a", "mod">>, <<"b", "mod">>, <<"a", "util">>, <<"b", "util">>}
LinkPaths ==
  {<<".", "util">>, <<".", "a", "mod">>, <<".", "b", "mod">>, <<"..", "main">>,
   <<".", "a", "util">>}

\* path.dirname of a resolved path
Dirname(file) == SubSeq(file, 1, Len(file) - 1)

\* path.resolve(basePath, modulePath): "." stays, ".." goes up (above the
\* directory of the entry file it is kept as a segment), a name goes down
RECURSIVE ResolvePath(_, _)
ResolvePath(basePath, modulePath) ==
  IF Len(modulePath) = 0 THEN basePath
  ELSE ResolvePath(
         IF Head(modulePath) = "." THEN basePath
         ELSE IF Head(modulePath) = ".."
         THEN (IF Len(basePath) = 0 \/ basePath[Len(basePath)] = ".."
               THEN Append(basePath, "..") ELSE Dirname(basePath))
         ELSE Append(basePath, Head(modulePath)),
         Tail(modulePath))

\* The loader's fullPath for modulePath written in currentFile
ResolveFrom(currentFile, modulePath) == ResolvePath(Dirname(currentFile), modulePath)

\* The import lists a file may have: paths that resolve to a file that exists
ImportChoices(file) ==
  LET paths == {p \in LinkPaths : ResolveFrom(file, p) \in LinkFiles}
      most == IF file = EntryFile THEN LinkImports
              ELSE IF file[Len(file)] = "mod" THEN ModImports ELSE 0
  IN UNION {[1..n -> paths] : n \in 0..most}

Alias(i) == IF i = 1 THEN "m1" ELSE IF i = 2 THEN "m2" ELSE "m3"

\* The statements of a file with these imports
Script(imports) ==
  [i \in 1..Len(imports) |-> [op |-> "summon", path |-> imports[i], alias |-> Alias(i)]]
    \o <<[op |-> "ring", path |-> <<>>, alias |-> ""],
         [op |-> "share", path |-> <<>>, alias |-> ""]>>
    \o [i \in 1..Len(imports) |-> [op |-> "call", path |-> <<>>, alias |-> Alias(i)]]

\* The {} the loader seeds the cache with, and the exports object of a VM
NoExports == [of |-> <<>>, props |-> <<>>]

\* The variant of GlobalsSet for VMs that all write one globals map
GlobalsSetShared(vms, name, value) ==
  [i \in 1..Len(vms) |-> [vms[i] EXCEPT !.globals = CacheSet(@, name, value)]]

\* STORE_GLOBAL in the running VM: this.globals.set(name, value)
GlobalsSet(vms, name, value) ==
  [vms EXCEPT ![Len(vms)].globals = CacheSet(@, name, value)]

\* new VM({currentFile, moduleLoader}): globals, exports and stack of its own
LinkVM(file) ==
  [currentFile |-> file, ip |-> 1, globals |-> <<>>,
   exports |-> [of |-> file, props |-> <<>>], stack |-> <<>>]

LinkTop == host.vms[Len(host.vms)]
Statement ==
  LET script == Script(host.imports[LinkTop.currentFile])
  IN IF LinkTop.ip \in 1..Len(script) THEN script[LinkTop.ip]
     ELSE [op |-> "end", path |-> <<>>, alias |-> ""]

Linking(op) ==
  /\ phase = "linking" /\ host.status = "running"
  /\ Statement.op = op

InitLinking ==
  /\ src = 0
  /\ phase = "linking"
  /\ prog = NoProgram
  /\ bytes = <<>>
  /\ loaded = NoProgram
  /\ vm = NewVM
  /\ prev = NewVM
  /\ \E main \in ImportChoices(EntryFile), a \in ImportChoices(<<"a", "mod">>),
        b \in ImportChoices(<<"b", "mod">>) :
       /\ host = [imports |-> [f \in LinkFiles |->
                                IF f = EntryFile THEN main
                                ELSE IF f = <<"a", "mod">> THEN a
                                ELSE IF f = <<"b", "mod">> THEN b ELSE <<>>],
                  moduleCache |-> <<>>,
                  vms |-> <<LinkVM(EntryFile)>>,
                  runs |-> [f \in LinkFiles |-> IF f = EntryFile THEN 1 ELSE 0],
                  got |-> {}, calls |-> {}, status |-> "running"]

\* IMPORT has pushed moduleExports (ghost: got records what it pushed)
Imported(vms, moduleExports) ==
  [vms EXCEPT ![Len(vms)].stack = Append(@, moduleExports)]

Got(moduleExports) ==
  [by |-> LinkTop.currentFile, path |-> Statement.path, got |-> moduleExports.of]

\* IMPORT, VM.loadModule: this.moduleCache has modulePath
LinkCached ==
  /\ Linking("summon") /\ LinkTop.stack = <<>>
  /\ Statement.path \in DOMAIN host.moduleCache
  /\ host' = [host EXCEPT !.vms = Imported(@, host.moduleCache[Statement.path]),
                          !.got = @ \cup {Got(host.moduleCache[Statement.path])}]
  /\ UNCHANGED <<src, phase, prog, bytes, loaded, vm, prev>>

\* IMPORT, the loader's cache has fullPath: VM.loadModule caches what it holds
\* under modulePath too
LinkLoaderCached ==
  /\ Linking("summon") /\ LinkTop.stack = <<>>
  /\ Statement.path \notin DOMAIN host.moduleCache
  /\ ResolveFrom(LinkTop.currentFile, Statement.path) \in DOMAIN host.moduleCache
  /\ LET moduleExports == host.moduleCache[ResolveFrom(LinkTop.currentFile, Statement.path)]
     IN host' = [host EXCEPT !.moduleCache = CacheSet(@, Statement.path, moduleExports),
                             !.vms = Imported(@, moduleExports),
                             !.got = @ \cup {Got(moduleExports)}]
  /\ UNCHANGED <<src, phase, prog, bytes, loaded, vm, prev>>

\* IMPORT, the loader seeds fullPath, compiles the file and runs it in a new VM
LinkLoaderRun ==
  /\ Linking("summon") /\ LinkTop.stack = <<>>
  /\ Statement.path \notin DOMAIN host.moduleCache
  /\ LET fullPath == ResolveFrom(LinkTop.currentFile, Statement.path)
     IN /\ fullPath \notin DOMAIN host.moduleCache
        /\ host' = [host EXCEPT !.moduleCache = CacheSet(@, fullPath, NoExports),
                                !.vms = Append(@, LinkVM(fullPath)),
                                !.runs[fullPath] = @ + 1]
  /\ UNCHANGED <<src, phase, prog, bytes, loaded, vm, prev>>

\* moduleVM.run(chunk) returns: the loader caches moduleVM.getExports() under
\* fullPath, VM.loadModule of the importer caches it under modulePath, IMPORT
\* pushes it
LinkModuleReturn ==
  /\ Linking("end") /\ Len(host.vms) > 1
  /\ LET importer == host.vms[Len(host.vms) - 1]
         modulePath == Script(host.imports[importer.currentFile])[importer.ip].path
         rest == SubSeq(host.vms, 1, Len(host.vms) - 1)
     IN host' = [host EXCEPT
          !.moduleCache = CacheSet(CacheSet(@, LinkTop.currentFile, LinkTop.exports),
                                   modulePath, LinkTop.exports),
          !.vms = Imported(rest, LinkTop.exports),
          !.got = @ \cup {[by |-> importer.currentFile, path |-> modulePath,
                           got |-> LinkTop.exports.of]}]
  /\ UNCHANGED <<src, phase, prog, bytes, loaded, vm, prev>>

\* summon ... as alias, after IMPORT: STORE_GLOBAL alias; POP
LinkStoreAlias ==
  /\ Linking("summon") /\ LinkTop.stack # <<>>
  /\ host' = [host EXCEPT
       !.vms = [GlobalsSet(@, Statement.alias, LinkTop.stack[1])
                  EXCEPT ![Len(host.vms)].stack = <<>>, ![Len(host.vms)].ip = @ + 1]]
  /\ UNCHANGED <<src, phase, prog, bytes, loaded, vm, prev>>

\* ring tag = <this file>: PUSH_CONST; STORE_GLOBAL tag; POP
LinkRing ==
  /\ Linking("ring")
  /\ host' = [host EXCEPT
       !.vms = [GlobalsSet(@, "tag", [t |-> "tag", of |-> LinkTop.currentFile])
                  EXCEPT ![Len(host.vms)].ip = @ + 1]]
  /\ UNCHANGED <<src, phase, prog, bytes, loaded, vm, prev>>

\* share song who() { answer tag }: MAKE_CLOSURE; STORE_GLOBAL who; POP;
\* LOAD_GLOBAL who; EXPORT who. home is a ghost: the file of the declaration
LinkShare ==
  /\ Linking("share")
  /\ LET closure == [t |-> "closure", home |-> LinkTop.currentFile]
     IN host' = [host EXCEPT
          !.vms = [GlobalsSet(@, "who", closure)
                     EXCEPT ![Len(host.vms)].exports.props = CacheSet(@, "who", closure),
                            ![Len(host.vms)].ip = @ + 1]]
  /\ UNCHANGED <<src, phase, prog, bytes, loaded, vm, prev>>

\* sing alias.who(): LOAD_GLOBAL alias; GET_PROP who; CALL 0; in the frame of
\* the closure LOAD_GLOBAL tag against the globals of the VM that executes it,
\* RETURN; PRINT. {}.who is undefined, which CALL cannot call
LinkCall ==
  /\ Linking("call")
  /\ LET moduleExports == LinkTop.globals[Statement.alias]
     IN IF "who" \notin DOMAIN moduleExports.props
        THEN host' = [host EXCEPT !.status = "error"]
        ELSE host' = [host EXCEPT
               !.calls = @ \cup {[by |-> LinkTop.currentFile,
                                  home |-> moduleExports.props["who"].home,
                                  got |-> LinkTop.globals["tag"]]},
               !.vms[Len(host.vms)].ip = @ + 1]
  /\ UNCHANGED <<src, phase, prog, bytes, loaded, vm, prev>>

\* runVM: vm.run(chunk) of the entry file returns
LinkEntryReturn ==
  /\ Linking("end") /\ Len(host.vms) = 1
  /\ host' = [host EXCEPT !.status = "finished"]
  /\ UNCHANGED <<src, phase, prog, bytes, loaded, vm, prev>>

NextLinking ==
  \/ LinkCached
  \/ LinkLoaderCached
  \/ LinkLoaderRun
  \/ LinkModuleReturn
  \/ LinkStoreAlias
  \/ LinkRing
  \/ LinkShare
  \/ LinkCall
  \/ LinkEntryReturn

SpecLinking == InitLinking /\ [][NextLinking]_vars

(***************************************************************************)
(* Properties                                                              *)
(***************************************************************************)
\* The machine is in a run and about to execute an instruction.
Running(m) == phase = "run" /\ m.status = "running"

\* The chunk the current frame of m executes.
ChunkOf(m) == FuncOf(m.closures[Frame(m).closure].func).chunk

\* C1: stack hygiene. Whenever execution stands at a statement boundary (before a
\* statement of a statement list, or at the end of the list), the value stack holds
\* the frame's declared locals and nothing else, so every statement has left the
\* stack as long as it found it, a declaration inside a scope adding its own slot.
C1_StackHygiene ==
  Running(vm) =>
    \A mark \in ChunkOf(vm).marks :
      mark.offset = Frame(vm).ip => Len(vm.stack) = Frame(vm).stackOffset + mark.locals

\* C2: upvalue sharing. Two captures of the same local of the same activation hold
\* the same Upvalue object, and a write through one closure is read through the
\* other: after the parent has returned (10 then 42) and while it is live (5, 5).
C2_UpvalueSharing ==
  /\ \A c1, c2 \in vm.caps :
       (c1.act = c2.act /\ c1.location = c2.location /\ c1.born = c2.born)
         => c1.upvalue = c2.upvalue
  /\ (phase = "run" /\ vm.status = "halted" /\ src = 2) => vm.output = <<"10", "42">>
  /\ (phase = "run" /\ vm.status = "halted" /\ src = 3) => vm.output = <<"5", "5">>

\* Two different closures captured one local and the write through the one was
\* read through the other after the parent returned.
C2_Witness ==
  /\ phase = "run" /\ src = 2 /\ vm.status = "halted"
  /\ vm.output = <<"10", "42">>
  /\ \E c1, c2 \in vm.caps :
       /\ c1.closure # c2.closure
       /\ c1.act = c2.act /\ c1.location = c2.location /\ c1.born = c2.born
       /\ c1.upvalue = c2.upvalue
       /\ vm.upvalues[c1.upvalue].location = NullLoc

\* The locations along the openUpvalues list, head first.
RECURSIVE OpenLocations(_, _)
OpenLocations(m, upvalue) ==
  IF upvalue = 0 THEN <<>>
  ELSE <<m.upvalues[upvalue].location>> \o OpenLocations(m, m.upvalues[upvalue].next)

\* C3: after any sequence of captureUpvalue and closeUpvalues calls the openUpvalues
\* list holds open upvalues only and is strictly descending by location, hence at
\* most one per stack index.
C3_OpenUpvaluesDescending ==
  LET locations == OpenLocations(vm, vm.openUpvalues)
  IN /\ \A i \in 1..Len(locations) : locations[i] # NullLoc
     /\ \A i \in 1..(Len(locations) - 1) : locations[i] > locations[i + 1]

\* Captures out of order and a close have happened: the list holds several
\* upvalues, the last made is not at its head, and one upvalue is closed.
C3_Witness ==
  /\ phase = "upvalues"
  /\ Len(OpenLocations(vm, vm.openUpvalues)) >= 3
  /\ vm.openUpvalues # Len(vm.upvalues)
  /\ \E u \in 1..Len(vm.upvalues) : vm.upvalues[u].location = NullLoc

\* C4: scope closure. Right after CLOSE_UPVALUE (threshold: the index of the slot
\* it pops) or RETURN (threshold: the returning frame's stackOffset) no upvalue is
\* open on a location at or above the threshold.
C4_ScopeClosure ==
  (Running(prev) /\ Byte(prev) \in {CLOSE_UPVALUE, RETURN}) =>
    LET threshold == IF Byte(prev) = CLOSE_UPVALUE THEN Len(prev.stack) - 1
                     ELSE Frame(prev).stackOffset
    IN /\ \A u \in 1..Len(vm.upvalues) :
            vm.upvalues[u].location # NullLoc => vm.upvalues[u].location < threshold
       /\ \A i \in 1..Len(OpenLocations(vm, vm.openUpvalues)) :
            OpenLocations(vm, vm.openUpvalues)[i] < threshold

\* A RETURN has just closed two upvalues of the returning frame at once.
C4_Witness ==
  /\ Running(prev) /\ Byte(prev) = RETURN
  /\ Cardinality({u \in 1..Len(prev.upvalues) :
                    /\ prev.upvalues[u].location # NullLoc
                    /\ prev.upvalues[u].location >= Frame(prev).stackOffset
                    /\ vm.upvalues[u].location = NullLoc}) >= 2

\* C5: frame discipline. When RETURN pops a frame and a caller remains, the run goes
\* on in the caller with the stack cut to returnSlot + 1, returnSlot being the slot
\* the callee occupied when it was called, the return value on top and every slot
\* below the callee as it was.
C5_FrameDiscipline ==
  (Running(prev) /\ Byte(prev) = RETURN /\ Len(prev.frames) > 1) =>
    LET returnSlot == Frame(prev).returnSlot
    IN /\ vm.status = "running"
       /\ returnSlot = Frame(prev).calleeSlot
       /\ Len(vm.stack) = returnSlot + 1
       /\ Peek(vm, 0) = Peek(prev, 0)
       /\ vm.frames = SubSeq(prev.frames, 1, Len(prev.frames) - 1)
       /\ \A i \in 1..returnSlot : vm.stack[i] = prev.stack[i]

\* The serialized size of the instruction at an offset, as the disassembler
\* steps over it.
InstructionWidth(chunk, funcs, offset) ==
  LET instruction == chunk.code[offset + 1]
      constant == At(chunk.constants, At(chunk.code, offset + 1))
  IN IF instruction \in {PUSH_CONST, LOAD, STORE, LOAD_GLOBAL, STORE_GLOBAL, JUMP,
                         JUMP_IF_FALSE, JUMP_IF_TRUE, LOOP, CALL, MAKE_ARRAY,
                         MAKE_OBJECT, GET_UPVALUE, SET_UPVALUE}
     THEN 2
     ELSE IF instruction = MAKE_CLOSURE
     THEN 2 + 2 * (IF constant.t = "function" /\ constant.n \in 1..Len(funcs)
                   THEN funcs[constant.n].upvalueCount ELSE 0)
     ELSE 1

\* The offset reached from an instruction start by stepping over 2^k instructions,
\* or the end of the code.
RECURSIVE Skip(_, _, _, _)
Skip(chunk, funcs, offset, k) ==
  IF offset >= Len(chunk.code) THEN offset
  ELSE IF k = 0 THEN offset + InstructionWidth(chunk, funcs, offset)
  ELSE Skip(chunk, funcs, Skip(chunk, funcs, offset, k - 1), k - 1)

\* The starts of the 2^k instructions from an instruction start on.
RECURSIVE Span(_, _, _, _)
Span(chunk, funcs, offset, k) ==
  IF offset >= Len(chunk.code) THEN {}
  ELSE IF k = 0 THEN {offset}
  ELSE Span(chunk, funcs, offset, k - 1)
         \cup Span(chunk, funcs, Skip(chunk, funcs, offset, k - 1), k - 1)

\* The offsets at which the instructions of a chunk begin, decoding from offset 0.
Boundaries(chunk, funcs) ==
  Span(chunk, funcs, 0, CHOOSE k \in 0..16 : Pow2(k) > Len(chunk.code))

\* Every jump of the chunk has an operand and lands on an instruction of the chunk.
JumpsClosed(chunk, funcs) ==
  LET starts == Boundaries(chunk, funcs)
  IN \A offset \in starts :
       chunk.code[offset + 1] \in {JUMP, JUMP_IF_FALSE, JUMP_IF_TRUE, LOOP} =>
         /\ offset + 1 < Len(chunk.code)
         /\ chunk.code[offset + 2] # NoByte
         /\ (IF chunk.code[offset + 1] = LOOP
             THEN offset + 2 - chunk.code[offset + 2]
             ELSE offset + 2 + chunk.code[offset + 2]) \in starts

\* The two chunks agree on code, constants and lines, nested functions included;
\* c is a chunk of prog and d one of loaded.
RECURSIVE SameChunk(_, _)
SameChunk(c, d) ==
  /\ c.code = d.code
  /\ c.lines = d.lines
  /\ Len(c.constants) = Len(d.constants)
  /\ \A k \in 1..Len(c.constants) :
       IF c.constants[k].t # "function" THEN c.constants[k] = d.constants[k]
       ELSE /\ d.constants[k].t = "function"
            /\ d.constants[k].n \in 1..Len(loaded.funcs)
            /\ LET f == prog.funcs[c.constants[k].n]
                   h == loaded.funcs[d.constants[k].n]
               IN /\ f.name = h.name
                  /\ f.arity = h.arity
                  /\ f.upvalueCount = h.upvalueCount
                  /\ SameChunk(f.chunk, h.chunk)

\* The pairs <<function of prog, function of loaded>> that constants at the same
\* place of the two chunks refer to.
RECURSIVE FunctionPairs(_, _)
FunctionPairs(c, d) ==
  UNION {IF c.constants[k].t = "function"
         THEN {<<c.constants[k].n, d.constants[k].n>>}
                \cup FunctionPairs(prog.funcs[c.constants[k].n].chunk,
                                   loaded.funcs[d.constants[k].n].chunk)
         ELSE {} : k \in 1..Len(c.constants)}

\* C6: serialization round trip. What deserialize makes of the serialized program
\* has the code, the constants in order and the line table of the generated chunk,
\* in every nested function too, and constants that named one function name one
\* function again.
C6_RoundTrip ==
  (bytes # <<>> /\ phase \in {"run", "failed"}) =>
    /\ loaded.err = ""
    /\ SameChunk(prog.main, loaded.main)
    /\ \A r1, r2 \in FunctionPairs(prog.main, loaded.main) :
         (r1[1] = r2[1]) <=> (r1[2] = r2[2])

\* C7: jump closure. In the main chunk and in every function chunk the generator
\* produced, every JUMP, JUMP_IF_FALSE, JUMP_IF_TRUE and LOOP is patched and its
\* target is the first byte of an instruction of that chunk.
C7_JumpClosure ==
  (phase # "source" /\ prog.err = "") =>
    /\ JumpsClosed(prog.main, prog.funcs)
    /\ \A i \in 1..Len(prog.funcs) : JumpsClosed(prog.funcs[i].chunk, prog.funcs)

\* C8: short-circuit fidelity. At the JUMP_IF_FALSE that follows the left operand
\* a of a logical expression the stack is left alone and, by the truthiness of the
\* language, a falsy a of `with` goes straight past the code of b, a truthy a of
\* `either` goes to the JUMP past the code of b, and otherwise execution enters
\* the code of b through the POP that discards a.
C8_ShortCircuit ==
  (Running(prev) /\ Byte(prev) = JUMP_IF_FALSE) =>
    \A l \in ChunkOf(prev).logical :
      l.jump = Frame(prev).ip =>
        /\ vm.stack = prev.stack
        /\ Len(vm.frames) = Len(prev.frames)
        /\ IF l.operator = "with"
           THEN Frame(vm).ip = IF InterpreterIsTruthy(Peek(prev, 0)) THEN l.jump + 2
                               ELSE l.end
           ELSE /\ ChunkOf(prev).code[l.jump + 3] = JUMP
                /\ l.jump + 4 + ChunkOf(prev).code[l.jump + 4] = l.end
                /\ Frame(vm).ip = IF InterpreterIsTruthy(Peek(prev, 0)) THEN l.jump + 2
                                  ELSE l.jump + 4

\* C9: native re-entrancy. Every invocation of a closure by a native through
\* callValue(callee, argsArray) has returned the closure's return value with the
\* frame stack and the value stack as deep as they were before it.
C9_NativeReentrancy ==
  \A i \in 1..Len(vm.calls) :
    /\ vm.calls[i].framesAfter = vm.calls[i].framesBefore
    /\ vm.calls[i].stackAfter = vm.calls[i].stackBefore
    /\ vm.calls[i].value # Undefined

\* The CALL at the ip of m names a closure whose arity is not the argument count.
ArityMismatch(m) ==
  /\ Running(m)
  /\ Byte(m) = CALL
  /\ LET argCount == Byte(ReadByte(m))
         callee == At(m.stack, Len(m.stack) - 1 - argCount)
     IN /\ callee.t = "closure"
        /\ FuncOf(m.closures[callee.n].func).arity # argCount

\* C10: CALL n into a closure of another arity fails with the arity error before
\* anything changes: no frame is pushed and the value stack, the current frame
\* (its ip apart, which has read the instruction), the open-upvalue list, the
\* upvalues and the globals are as they were.
C10_ArityMismatch ==
  ArityMismatch(prev) =>
    /\ vm.status = "error"
    /\ vm.error = "Expected arguments mismatch"
    /\ vm.stack = prev.stack
    /\ vm.frames = [prev.frames EXCEPT ![Len(prev.frames)].ip = @ + 2]
    /\ vm.openUpvalues = prev.openUpvalues
    /\ vm.upvalues = prev.upvalues
    /\ vm.globals = prev.globals
    /\ vm.output = prev.output

\* A CALL with two arguments into a closure of one parameter has failed.
C10_Witness ==
  /\ ArityMismatch(prev)
  /\ src = 11
  /\ Byte(ReadByte(prev)) = 2
  /\ vm.status = "error"
  /\ Len(vm.frames) = 1

\* The CALL at the ip of m names a native whose declared arity is neither -1 nor
\* the argument count.
NativeArityMismatch(m) ==
  /\ Running(m)
  /\ Byte(m) = CALL
  /\ LET argCount == Byte(ReadByte(m))
         callee == At(m.stack, Len(m.stack) - 1 - argCount)
     IN /\ callee.t = "native"
        /\ callee.n # 0 - 1
        /\ callee.n # argCount

\* C11: CALL n into a native whose declared arity is neither -1 nor n fails with
\* an arity error and the native is not invoked: nothing is printed, no array is
\* made, no callback is called and no result is pushed.
C11_NativeArity ==
  NativeArityMismatch(prev) =>
    /\ vm.status = "error"
    /\ vm.output = prev.output
    /\ vm.arrays = prev.arrays
    /\ vm.calls = prev.calls
    /\ Len(vm.stack) <= Len(prev.stack)

\* C12: DIV and MOD whose divisor is the number 0 both fail with the
\* division-by-zero error and push no result.
C12_DivisionByZero ==
  (Running(prev) /\ Byte(prev) \in {DIV, MOD} /\ Peek(prev, 0) = Num(0)) =>
    /\ vm.status = "error"
    /\ vm.error = "Division by zero"
    /\ Len(vm.stack) = Len(prev.stack) - 2

\* C13: NOT, JUMP_IF_FALSE and JUMP_IF_TRUE decide by the truthiness of the
\* language, that of Interpreter.isTruthy: shadow is false, a boolean is itself,
\* a number is true unless it is 0, a string is true unless it is empty and
\* every other value is true.
C13_Truthiness ==
  (Running(prev) /\ Byte(prev) \in {NOT, JUMP_IF_FALSE, JUMP_IF_TRUE}) =>
    LET truthy == InterpreterIsTruthy(Peek(prev, 0))
        next == Frame(prev).ip + 2
        target == next + Byte(ReadByte(prev))
    IN CASE Byte(prev) = NOT -> Peek(vm, 0) = Bool(~truthy)
         [] Byte(prev) = JUMP_IF_FALSE -> Frame(vm).ip = IF truthy THEN next ELSE target
         [] OTHER -> Frame(vm).ip = IF truthy THEN target ELSE next

\* C14: ADD with a string operand pushes the concatenation of the two operands
\* as PRINT renders them (shadow, goldberry, sauron, bracketed arrays), and so a
\* template string renders its embedded values as PRINT does.
C14_StringConcat ==
  (Running(prev) /\ Byte(prev) = ADD
     /\ (Peek(prev, 0).t = "string" \/ Peek(prev, 1).t = "string")) =>
    /\ vm.status = "running"
    /\ Peek(vm, 0) = Str(FormatValue(prev, Peek(prev, 1)) \o FormatValue(prev, Peek(prev, 0)))

\* C15: deserialize of a proper prefix of a valid container, cut anywhere after
\* the header, fails with an error and returns no chunk.
C15_TruncatedInput == phase = "truncated" => loaded.err # ""

\* C16: error propagation. When an opcode has failed while called frames were
\* active, those frames are unwound and no upvalue is still open at or above the
\* stackOffset of an unwound frame.
C16_ErrorPropagation ==
  (phase = "run" /\ vm.status = "error" /\ Len(prev.frames) >= 2) =>
    LET locations == OpenLocations(vm, vm.openUpvalues)
    IN /\ Len(vm.frames) = 1
       /\ \A i \in 1..Len(locations) : locations[i] < prev.frames[2].stackOffset

\* Every file a nested VM is running was marked in the cache before it ran, and
\* the loader has started no file more than once.
SeededBeforeRun ==
  /\ \A i \in 2..Len(host.vms) : FullPath(host.vms[i].currentFile) \in DOMAIN host.moduleCache
  /\ \A f \in DOMAIN host.starts : host.starts[f] <= 1

\* C17: cyclic imports terminate. For every import graph, with or without a
\* cycle, through the entry file or not, the run of the entry file finishes; the
\* loader has seeded the shared cache before a module runs, and no module is
\* started again while it is loading or after.
C17_CyclicImportsTerminate == []SeededBeforeRun /\ <>(host.status = "finished")

\* The entry file has finished a run in which files 1 and 2 import each other:
\* the loader ran the entry file once more as a module, and the import of file 2
\* inside it met the placeholder.
C17_Witness ==
  /\ host.status = "finished"
  /\ 2 \in {host.files[1][i] : i \in 1..Len(host.files[1])}
  /\ 1 \in {host.files[2][i] : i \in 1..Len(host.files[2])}
  /\ host.starts[1] = 1
  /\ host.starts[2] = 1

\* The upvalue the GET_UPVALUE or SET_UPVALUE at the ip of m names (0 if none).
TargetUpvalue(m) ==
  IF Running(m) /\ Byte(m) \in {GET_UPVALUE, SET_UPVALUE}
  THEN UpvalueAt(ReadByte(m), Frame(m).closure, Byte(ReadByte(m)))
  ELSE 0

\* C18: upvalue lifecycle. Over every instruction: a closed upvalue stays closed;
\* an upvalue that closes receives in its cell the value its stack slot held;
\* the cell of a closed upvalue changes only by a SET_UPVALUE through it, which
\* leaves the stack alone, whatever is written to the stack meanwhile; and a
\* GET_UPVALUE through a closed upvalue pushes the cell.
C18_UpvalueLifecycle ==
  (phase = "run" /\ Len(prev.upvalues) > 0) =>
    \A u \in 1..Len(prev.upvalues) :
      IF prev.upvalues[u].location = NullLoc
      THEN /\ vm.upvalues[u].location = NullLoc
           /\ vm.upvalues[u].closed # prev.upvalues[u].closed =>
                (Byte(prev) = SET_UPVALUE /\ TargetUpvalue(prev) = u)
           /\ TargetUpvalue(prev) = u =>
                IF Byte(prev) = SET_UPVALUE
                THEN /\ vm.stack = prev.stack
                     /\ vm.upvalues[u].closed = Peek(prev, 0)
                ELSE Peek(vm, 0) = prev.upvalues[u].closed
      ELSE /\ vm.upvalues[u].location \in {prev.upvalues[u].location, NullLoc}
           /\ vm.upvalues[u].location = NullLoc =>
                vm.upvalues[u].closed = At(prev.stack, prev.upvalues[u].location)

\* A SET_UPVALUE through an upvalue that closed when its function returned has
\* put a new value in the cell, its former stack slot being in use again.
C18_Witness ==
  /\ phase = "run"
  /\ TargetUpvalue(prev) # 0
  /\ Byte(prev) = SET_UPVALUE
  /\ prev.upvalues[TargetUpvalue(prev)].location = NullLoc
  /\ vm.upvalues[TargetUpvalue(prev)].closed # prev.upvalues[TargetUpvalue(prev)].closed
  /\ vm.stack = prev.stack
  /\ Len(vm.stack) > 0

\* C19: onwards inside journey. In `journey (i in range(5)) { perhaps (i == 2)
\* { onwards } sing i }` the locals are __iter, __i and i in slots 0, 1 and 2:
\* every jump back to the loop start, that of onwards included, is made with
\* the index advanced past the element just visited, and the finished run has
\* printed 0, 1, 3, 4.
C19_OnwardsInJourney ==
  (phase = "run" /\ src = 23) =>
    /\ (Running(prev) /\ Byte(prev) = LOOP) =>
         /\ vm.status = "running"
         /\ At(vm.stack, 1) = Num(At(vm.stack, 2).n + 1)
    /\ vm.status = "halted" => vm.output = <<"0", "1", "3", "4">>

\* C20: constants cannot be reassigned. In `precious PI = 3  PI = 4  PI += 1
\* sing PI` compiled and run by the VM, PI keeps the value 3 once it is
\* declared, the assignments are errors, and so the run does not go on to its
\* end and prints nothing.
C20_ConstantReassignment ==
  (phase = "run" /\ src = 24) =>
    /\ Str("PI") \in DOMAIN vm.globals => vm.globals[Str("PI")] = Num(3)
    /\ vm.status # "halted"
    /\ vm.output = <<>>

\* C21: a higher-order native accepts a callback of fewer parameters than the
\* arguments it supplies. `ring r = map([1, 2], (n) => n * 2)  sing r` run by
\* the VM calls the lambda once per element without an error and prints the
\* array of its results, as the tree-walking interpreter does.
C21_CallbackParameters ==
  (phase = "run" /\ src = 25) =>
    /\ vm.status # "error"
    /\ vm.status = "halted" => vm.output = <<"[2, 4]">>

\* C22: local slot agreement. In `{ wander (goldberry) { ring a = 1  flee }
\* ring b = 3  sing b }` the local b has compile-time slot 0 and the one LOAD of
\* the program refers to it: the LOAD reads the stack position of b, which holds
\* 3, at stackOffset + 0, and the program prints 3.
C22_LocalSlotAgreement ==
  (phase = "run" /\ src = 26) =>
    /\ (Running(prev) /\ Byte(prev) = LOAD) =>
         /\ Byte(ReadByte(prev)) = 0
         /\ Len(prev.stack) = Frame(prev).stackOffset + 1
         /\ Peek(vm, 0) = Num(3)
    /\ vm.status = "halted" => vm.output = <<"3">>

\* C23: every path ends in a terminator. The main chunk ends with HALT and every
\* function and lambda chunk with RETURN, and at every instruction fetch the ip
\* of the current frame lies inside the code of its chunk.
C23_Terminator ==
  phase = "run" =>
    /\ Len(prog.main.code) > 0
    /\ prog.main.code[Len(prog.main.code)] = HALT
    /\ \A i \in 1..Len(prog.funcs) :
         /\ Len(prog.funcs[i].chunk.code) > 0
         /\ prog.funcs[i].chunk.code[Len(prog.funcs[i].chunk.code)] = RETURN
    /\ Running(vm) => Frame(vm).ip \in 0..(Len(ChunkOf(vm).code) - 1)

\* C24: a captured slot does not leave the stack before its upvalues are closed.
\* At every opcode boundary every upvalue on the openUpvalues list is open and
\* its location is below the length of the value stack.
C24_ClosedBeforeGone ==
  Running(vm) =>
    LET locations == OpenLocations(vm, vm.openUpvalues)
    IN \A i \in 1..Len(locations) :
         /\ locations[i] # NullLoc
         /\ locations[i] < Len(vm.stack)

\* What `{ ring m = 1  sing m--  sing m }  ring n = 5  sing n++  sing n  sing ++n
\* sing n` prints when a postfix update yields the old value and a prefix
\* update the new one.
UpdateOutput == <<"1", "0", "5", "6", "7", "7">>

\* C25: the result of an update expression is the value before the update for
\* x++ and x--, the value after it for ++x and --x, and the variable, global or
\* local, holds the updated value afterwards: the program prints 1, 0, 5, 6,
\* 7, 7, each PRINT in its turn.
C25_UpdateExpression ==
  (phase = "run" /\ src = 28) =>
    /\ Len(vm.output) <= Len(UpdateOutput)
    /\ \A i \in 1..Len(vm.output) : vm.output[i] = UpdateOutput[i]

\* The programs whose flee or onwards has no enclosing loop in its own function
\* body: at top level (29), and in a function or lambda declared inside a loop
\* body (13 and 30).
OutsideLoop == {13, 29, 30}

\* C26: flee and onwards must be inside a loop. Generating code for a flee or
\* onwards without an enclosing loop in the same function body fails at
\* generation time: there is an error, no chunk is run or serialized.
C26_OutsideLoop ==
  (src \in OutsideLoop /\ phase # "source") =>
    /\ phase = "failed"
    /\ prog.err # ""

\* C27: closures of separate calls capture distinct upvalues. Two captures made
\* for closures of one function by different activations of its enclosing
\* function never hold the same Upvalue object, also at one stack location once
\* the first activation has returned, and a write through a closure of one call
\* is not seen through a closure of the other: f(), f(), g() of two counters
\* print 1, 2, 1.
C27_DistinctActivations ==
  /\ \A c1, c2 \in vm.caps :
       (c1.act # c2.act /\ vm.closures[c1.closure].func = vm.closures[c2.closure].func)
         => c1.upvalue # c2.upvalue
  /\ (phase = "run" /\ vm.status = "halted" /\ src = 31) => vm.output = <<"1", "2", "1">>

\* Two calls of makeCounter have captured c at one stack location in two
\* upvalues, both closed by the returns, and the counters have counted apart.
C27_Witness ==
  /\ phase = "run" /\ src = 31 /\ vm.status = "halted"
  /\ vm.output = <<"1", "2", "1">>
  /\ \E c1, c2 \in vm.caps :
       /\ c1.act # c2.act
       /\ vm.closures[c1.closure].func = vm.closures[c2.closure].func
       /\ c1.location = c2.location
       /\ c1.upvalue # c2.upvalue
       /\ vm.upvalues[c1.upvalue].location = NullLoc
       /\ vm.upvalues[c2.upvalue].location = NullLoc
       /\ vm.upvalues[c1.upvalue].closed # vm.upvalues[c2.upvalue].closed

\* Every element of the code of chunk is a byte.
BytesOnly(chunk) == \A i \in 1..Len(chunk.code) : chunk.code[i] \in 0..255

\* C28: every code byte the generator stores in a chunk, main or function, is
\* an integer in 0..255, forward jump distances and LOOP distances included,
\* whatever the size of the program.
C28_CodeBytes ==
  phase \in {"compiled", "built", "run", "truncated"} =>
    /\ BytesOnly(prog.main)
    /\ \A i \in 1..Len(prog.funcs) : BytesOnly(prog.funcs[i].chunk)

\* The function of the generated program of that name.
FuncNamed(name) == CHOOSE f \in 1..Len(prog.funcs) : prog.funcs[f].name = name

\* The descriptor bytes that follow the MAKE_CLOSURE instructions of chunk for
\* function func.
DescriptorsOf(chunk, func) ==
  {SubSeq(chunk.code, offset + 3, offset + 2 + 2 * prog.funcs[func].upvalueCount) :
     offset \in {o \in Boundaries(chunk, prog.funcs) :
                  /\ chunk.code[o + 1] = MAKE_CLOSURE
                  /\ At(chunk.constants, At(chunk.code, o + 1)) = Val("function", func, "")}}

\* C29: capture across two function levels. In `song outer() { ring x = 1  song
\* mid() { song inner() { x = x + 1; answer x } answer inner }  ring i = mid()
\* sing i()  sing x }  outer()` the generator gives mid one upvalue (isLocal,
\* slot 0 of outer) and inner one upvalue (not isLocal, upvalue 0 of mid), used
\* for both the read and the write of x. In every program a MAKE_CLOSURE gives
\* the new closure, for each descriptor that is not isLocal, the Upvalue object
\* the running closure holds at that index. inner writes the x of outer: the
\* program prints 2, 2.
C29_NestedCapture ==
  /\ (src = 32 /\ phase \in {"compiled", "built", "run", "truncated"}) =>
       /\ prog.funcs[FuncNamed("mid")].upvalueCount = 1
       /\ prog.funcs[FuncNamed("inner")].upvalueCount = 1
       /\ DescriptorsOf(prog.funcs[FuncNamed("outer")].chunk, FuncNamed("mid")) = {<<1, 0>>}
       /\ DescriptorsOf(prog.funcs[FuncNamed("mid")].chunk, FuncNamed("inner")) = {<<0, 0>>}
  /\ (Running(prev) /\ Byte(prev) = MAKE_CLOSURE /\ vm.status = "running") =>
       LET closure == vm.closures[Len(vm.closures)]
           code == ChunkOf(prev).code
           ip == Frame(prev).ip
       IN \A i \in 1..Len(closure.upvalues) :
            code[ip + 1 + 2 * i] = 0 =>
              /\ closure.upvalues[i] # 0
              /\ closure.upvalues[i] =
                   UpvalueAt(prev, Frame(prev).closure, code[ip + 2 + 2 * i])
  /\ (phase = "run" /\ src = 32 /\ vm.status = "halted") => vm.output = <<"2", "2">>

\* mid, called by outer, has made the closure of inner with the upvalue of x it
\* holds itself, still open on the slot of x in the frame of outer.
C29_Witness ==
  /\ src = 32
  /\ Running(prev) /\ Byte(prev) = MAKE_CLOSURE /\ vm.status = "running"
  /\ Len(prev.frames) = 3
  /\ Len(vm.closures[Len(vm.closures)].upvalues) = 1
  /\ vm.closures[Len(vm.closures)].upvalues[1] = UpvalueAt(prev, Frame(prev).closure, 0)
  /\ vm.upvalues[vm.closures[Len(vm.closures)].upvalues[1]].location = prev.frames[2].stackOffset

\* Every MAKE_CLOSURE of the chunk names a function constant and has, inside the
\* code, the 2 * upvalueCount bytes of its (isLocal, index) pairs; decoding from
\* offset 0 with these widths ends at the end of the code.
DescriptorsComplete(chunk, funcs) ==
  LET starts == Boundaries(chunk, funcs)
  IN /\ \A offset \in starts :
          offset + InstructionWidth(chunk, funcs, offset) <= Len(chunk.code)
     /\ \A offset \in starts :
          chunk.code[offset + 1] = MAKE_CLOSURE =>
            LET constant == At(chunk.constants, At(chunk.code, offset + 1))
            IN /\ constant.t = "function"
               /\ constant.n \in 1..Len(funcs)
               /\ \A i \in 1..funcs[constant.n].upvalueCount :
                    /\ chunk.code[offset + 1 + 2 * i] \in {0, 1}
                    /\ chunk.code[offset + 2 + 2 * i] \in 0..255

\* C30: closure descriptors. In every generated chunk, and in every chunk after
\* serialize and deserialize, a MAKE_CLOSURE k is followed by the 2 * upvalueCount
\* descriptor bytes of function constant k. Executing it moves ip over the
\* operand and exactly those bytes, gives the new closure upvalueCount upvalues,
\* none of them null, and pushes that closure and nothing else.
C30_ClosureDescriptors ==
  /\ phase \in {"compiled", "built", "run", "truncated"} =>
       /\ DescriptorsComplete(prog.main, prog.funcs)
       /\ \A f \in 1..Len(prog.funcs) : DescriptorsComplete(prog.funcs[f].chunk, prog.funcs)
  /\ phase = "run" =>
       /\ DescriptorsComplete(loaded.main, loaded.funcs)
       /\ \A f \in 1..Len(loaded.funcs) :
            DescriptorsComplete(loaded.funcs[f].chunk, loaded.funcs)
  /\ (Running(prev) /\ Byte(prev) = MAKE_CLOSURE /\ vm.steps = prev.steps + 1) =>
       LET func == Constant(prev, Byte(ReadByte(prev)))
           closure == Len(vm.closures)
       IN /\ func.t = "function"
          /\ vm.status = "running"
          /\ Len(vm.frames) = Len(prev.frames)
          /\ Frame(vm).ip = Frame(prev).ip + 2 + 2 * FuncOf(func.n).upvalueCount
          /\ closure = Len(prev.closures) + 1
          /\ vm.closures[closure].func = func.n
          /\ Len(vm.closures[closure].upvalues) = FuncOf(func.n).upvalueCount
          /\ \A i \in 1..Len(vm.closures[closure].upvalues) :
               vm.closures[closure].upvalues[i] \in 1..Len(vm.upvalues)
          /\ vm.stack = Append(prev.stack, Val("closure", closure, ""))

\* C31: identifier resolution. In `{ ring a = 1  a = 2  a += 3  a++  ring b = 9
\* sing a  sing b }` the assignment, the compound assignment and the update of a
\* act on the local a, and the reference to b reads the local b declared just
\* before it: the program prints 6 and 9.
C31_Resolution ==
  (phase = "run" /\ src = 34 /\ vm.status = "halted") => vm.output = <<"6", "9">>

\* C32: a journey loop runs its body once per element, in order, and ends with
\* its three locals gone. `journey (x in [3, 5, 9]) { sing x }  sing 0` prints 3,
\* 5, 9, 0 and halts with an empty stack; `journey (i in range(5)) { perhaps (i
\* == 2) { onwards } sing i }`, whose body has no flee and leaves the array alone,
\* prints 0, 1, 3, 4 and halts with an empty stack before the step bound.
C32_JourneyRuns ==
  /\ (phase = "run" /\ src = 35 /\ vm.status = "halted") =>
       vm.output = <<"3", "5", "9", "0">> /\ vm.stack = <<>>
  /\ (phase = "run" /\ src = 23) =>
       /\ vm.steps < MaxSteps
       /\ vm.status = "halted" => vm.output = <<"0", "1", "3", "4">> /\ vm.stack = <<>>

\* C33: IMPORT pushes the exports of the file its path resolves to from the
\* directory of the importing file: whatever was imported before, what a
\* module receives (a module still loading aside) is the exports object of
\* ResolveFrom(importer, path), so two modules in different directories that
\* write the same relative path each receive their own file's exports.
C33_ImportResolves ==
  phase = "linking" =>
    \A g \in host.got : g.got # <<>> => g.got = ResolveFrom(g.by, g.path)

\* C34: a closure exported by a module and called from the importing file
\* resolves the global names in its body against the globals of the module
\* that defines it: who() answers the tag of the file it was declared in.
C34_DefiningGlobals ==
  phase = "linking" => \A c \in host.calls : c.got = [t |-> "tag", of |-> c.home]

\* C37: whatever the import graph (a file reached under two path strings, a
\* cycle, a cycle through the entry file), the top-level chunk of each file
\* is executed at most once in a run.
C37_RunOnce ==
  phase = "linking" => \A f \in LinkFiles : host.runs[f] <= 1

\* C38: a module runs in a VM with globals of its own: the VM starts without
\* any global of the importer, and while it runs (however deep the imports
\* nest) no step changes the globals of a VM that is waiting in an IMPORT;
\* what the importer then receives is an exports object.
C38_DisjointGlobals ==
  [][phase = "linking" =>
       /\ \A i \in 1..(Len(host.vms) - 1) : host'.vms[i].globals = host.vms[i].globals
       /\ Len(host'.vms) > Len(host.vms) => host'.vms[Len(host'.vms)].globals = <<>>
       /\ \A i \in 1..Len(host'.vms) : \A j \in 1..Len(host'.vms[i].stack) :
            DOMAIN host'.vms[i].stack[j] = {"of", "props"}]_vars

C38_Witness ==
  /\ phase = "linking" /\ Len(host.vms) > 2
  /\ "m1" \in DOMAIN host.vms[1].globals
  /\ "tag" \notin DOMAIN host.vms[2].globals
  /\ "tag" \in DOMAIN LinkTop.globals

\* C35: closures made in different iterations of a journey that capture the
\* loop variable each observe the element of their own iteration, during the
\* loop and after it: program 36 prints 3 and 3 in the loop, 3 and 5 after it.
C35_IterationCapture ==
  (phase = "run" /\ src = 36 /\ vm.status = "halted") => vm.output = <<"3", "3", "3", "5">>

\* C36: arithmetic on operands of the wrong type fails with a type error
\* instead of pushing a result: program 37, whose first statement subtracts a
\* number from a boolean, prints nothing and ends in an error.
C36_TypeChecked ==
  (phase = "run" /\ src = 37) =>
    /\ vm.output = <<>>
    /\ vm.status \in {"error", "halted"} => vm.status = "error"

\* C39: JUMP_IF_FALSE, JUMP_IF_TRUE, STORE, STORE_GLOBAL and SET_UPVALUE peek:
\* they leave the length of the value stack and its top value as they were.
\* STORE changes nothing but the slot it addresses, STORE_GLOBAL nothing but
\* the global it names, SET_UPVALUE nothing but the slot its upvalue is open
\* on or the cell of the closed upvalue, and the two jumps change no value.
Peeking == {JUMP_IF_FALSE, JUMP_IF_TRUE, STORE, STORE_GLOBAL, SET_UPVALUE}

SameBut(old, new, keys) ==
  /\ DOMAIN new = DOMAIN old \cup (keys \cap DOMAIN new)
  /\ \A k \in DOMAIN old \ keys : new[k] = old[k]

PeekStep ==
  /\ phase = "run" /\ vm.status = "running" /\ Byte(vm) \in Peeking
  /\ vm'.steps = vm.steps + 1 /\ vm'.status # "error"

FunctionConstants(p, func) ==
  LET IsFunction(value) == value.t = "function"
      functions == SelectSeq((IF func = 0 THEN p.main ELSE p.funcs[func].chunk).constants,
                             IsFunction)
  IN [i \in 1..Len(functions) |-> functions[i].n]

\* Depth-first pre-order from the functions pending, first visit only
RECURSIVE PreOrder(_, _, _)
PreOrder(p, pending, seen) ==
  IF Len(pending) = 0 THEN seen
  ELSE IF \E i \in 1..Len(seen) : seen[i] = Head(pending)
  THEN PreOrder(p, Tail(pending), seen)
  ELSE PreOrder(p, FunctionConstants(p, Head(pending)) \o Tail(pending),
                Append(seen, Head(pending)))

FunctionName(p, func) == IF func = 0 THEN "__main__" ELSE p.funcs[func].name

\* C40: the serializer numbers the functions in depth-first pre-order from
\* main through the function constants: main is 0, every function of the
\* program has exactly one index, the functions are written in index order,
\* functionCount is their number and every function constant is written as
\* an index below functionCount.
C40_FunctionIndices ==
  phase = "built" =>
    LET map == CollectFunctions(prog)
        file == Deserialize(bytes)
    IN /\ map = PreOrder(prog, <<0>>, <<>>)
       /\ map[1] = 0
       /\ {map[i] : i \in 1..Len(map)} = 0..Len(prog.funcs)
       /\ \A i, j \in 1..Len(map) : map[i] = map[j] => i = j
       /\ ReadUint32(bytes, 6) = Len(map)
       /\ \A f \in 0..Len(prog.funcs) :
            \A i \in 1..Len(FunctionConstants(prog, f)) :
              FunctionIndex(map, FunctionConstants(prog, f)[i]) \in 0..(Len(map) - 1)
       /\ file.err = "" =>
            /\ Len(file.funcs) = Len(map)
            /\ \A i \in 1..Len(map) : file.funcs[i].name = FunctionName(prog, map[i])

C40_Witness ==
  /\ phase = "built" /\ src = 38
  /\ Deserialize(bytes).err = ""
  /\ [i \in 1..4 |-> FunctionName(prog, CollectFunctions(prog)[i])]
       = <<"__main__", "f", "g", "h">>

====
